---- MODULE Spec2Model ----
(***************************************************************************)
(* AliChatbot (src/chatbot.py): the rule-based dialogue engine of the      *)
(* FlexiPDF backend, with its memory store, its durable record and its     *)
(* short-term context buffer.                                              *)
(*                                                                         *)
(* A Python str is a sequence of one-character strings, so that searching, *)
(* trimming, case conversion and the regular expressions of the source     *)
(* are computed character by character.  The only white-space character of *)
(* the model is the blank.  A reply is a sequence too: the constant pieces *)
(* of an f-string are single multi-character strings (emoji are written as *)
(* names between colons), the interpolated values are spliced in character *)
(* by character.                                                           *)
(***************************************************************************)
EXTENDS Integers, Sequences, FiniteSets, TLC

VARIABLES data, context, disk, fs, now, last, prev, logged, saved, calls

vars == <<data, context, disk, fs, now, last, prev, logged, saved, calls>>

(***************************************************************************)
(* Python str operations                                                   *)
(***************************************************************************)
UpperLetters == <<"A","B","C","D","E","F","G","H","I","J","K","L","M","N","O","P","Q","R","S","T","U","V","W","X","Y","Z">>

LowerLetters == <<"a","b","c","d","e","f","g","h","i","j","k","l","m","n","o","p","q","r","s","t","u","v","w","x","y","z">>

DigitChars == <<"0","1","2","3","4","5","6","7","8","9">>

Range(s) == {s[i] : i \in 1..Len(s)}

UpperSet == Range(UpperLetters)

LowerSet == Range(LowerLetters)

LetterSet == UpperSet \cup LowerSet

DigitSet == Range(DigitChars)

\* \s of the re module
SpaceSet == {" "}

\* \w of the re module
WordSet == LetterSet \cup DigitSet \cup {"_"}

\* the characters an input line is made of
CharSet == WordSet \cup SpaceSet \cup {"'", "-", "?", ".", "!", ":"}

LowerOf == [c \in UpperSet |-> LowerLetters[CHOOSE i \in 1..26 : UpperLetters[i] = c]]

UpperOf == [c \in LowerSet |-> UpperLetters[CHOOSE i \in 1..26 : LowerLetters[i] = c]]

LowerChar(c) == IF c \in UpperSet THEN LowerOf[c] ELSE c

UpperChar(c) == IF c \in LowerSet THEN UpperOf[c] ELSE c

Min(S) == CHOOSE x \in S : \A y \in S : x <= y

\* str.lower()
lower(s) == [i \in 1..Len(s) |-> LowerChar(s[i])]

\* str.title(): a letter that follows a non-letter is upper-cased, any other
\* letter is lower-cased
title(s) ==
  [i \in 1..Len(s) |->
     IF i = 1 \/ s[i - 1] \notin LetterSet THEN UpperChar(s[i]) ELSE LowerChar(s[i])]

\* str.capitalize()
capitalize(s) == [i \in 1..Len(s) |-> IF i = 1 THEN UpperChar(s[i]) ELSE LowerChar(s[i])]

\* str.replace(a, b) for single characters a and b
replace(s, a, b) == [i \in 1..Len(s) |-> IF s[i] = a THEN b ELSE s[i]]

\* the index after the longest run of characters of C that starts at index i
RunEnd(s, i, C) ==
  CHOOSE k \in i..(Len(s) + 1) :
    /\ \A j \in i..(k - 1) : s[j] \in C
    /\ k = Len(s) + 1 \/ s[k] \notin C

\* the index of the first character of the longest run of characters of C
\* that ends at index i
RunStart(s, i, C) ==
  CHOOSE k \in 1..(i + 1) :
    /\ \A j \in k..i : s[j] \in C
    /\ k = 1 \/ s[k - 1] \notin C

\* str.rstrip(chars)
rstrip(s, C) == SubSeq(s, 1, RunStart(s, Len(s), C) - 1)

\* str.strip()
strip(s) == LET a == RunEnd(s, 1, SpaceSet) IN
  IF a > Len(s) THEN <<>> ELSE SubSeq(s, a, RunStart(s, Len(s), SpaceSet) - 1)

\* the trailing punctuation every extractor trims: .rstrip(".!?")
Punct == {".", "!", "?"}

\* sub in s
contains(s, sub) ==
  \E i \in 1..(Len(s) - Len(sub) + 1) : SubSeq(s, i, i + Len(sub) - 1) = sub

\* s.startswith(sub) at index i, ignoring letter case (re.IGNORECASE)
LitAt(s, i, lit) ==
  /\ i + Len(lit) - 1 <= Len(s)
  /\ lower(SubSeq(s, i, i + Len(lit) - 1)) = lit

\* len(s): the characters of s, not its words
CharCount(s) == Len(s)

\* len(s.split())
WordCount(s) ==
  Cardinality({i \in 1..Len(s) :
     s[i] \notin SpaceSet /\ (i = 1 \/ s[i - 1] \in SpaceSet)})

\* \b of the re module at index i (between s[i-1] and s[i])
Boundary(s, i) ==
  LET w(j) == j \in 1..Len(s) /\ s[j] \in WordSet
  IN  w(i - 1) # w(i)

(***************************************************************************)
(* Regular expressions of the extractors                                   *)
(***************************************************************************)
\* the result of a match: ok, and the text of the groups
NoMatch == [ok |-> FALSE, g1 |-> <<>>, g2 |-> <<>>]

Matched(a, b) == [ok |-> TRUE, g1 |-> a, g2 |-> b]

\* \s+(C+) at index j, the group at most maxlen characters long when maxlen
\* is not 0: all the
\* blanks, then the longest run of C; when no character of C follows the
\* blanks and the blanks are in C, the regex backtracks and the group is the
\* last blank
CaptureAt(s, j, C, maxlen) ==
  LET k == RunEnd(s, j, SpaceSet)
      e == RunEnd(s, k, C)
  IN  IF k = j THEN NoMatch
      ELSE IF e > k
        THEN Matched(SubSeq(s, k, (IF maxlen > 0 /\ e - k > maxlen THEN k + maxlen ELSE e) - 1), <<>>)
      ELSE IF k - j >= 2 /\ SpaceSet \subseteq C THEN Matched(<<s[k - 1]>>, <<>>)
      ELSE NoMatch

\* re.search(r"\b<lit>\s+(C+)", s, re.IGNORECASE) for the alternatives lits of
\* the literal part: the leftmost match
SearchCapture(s, lits, C, maxlen) ==
  LET at(i) == {n \in 1..Len(lits) :
                  /\ Boundary(s, i)
                  /\ LitAt(s, i, lits[n])
                  /\ CaptureAt(s, i + Len(lits[n]), C, maxlen).ok}
      hits == {i \in 1..Len(s) : at(i) # {}}
  IN  IF hits = {} THEN NoMatch
      ELSE LET i == Min(hits)
               n == Min(at(i))
           IN  CaptureAt(s, i + Len(lits[n]), C, maxlen)

\* [A-Za-z\s'\-]
NameClass == LetterSet \cup SpaceSet \cup {"'", "-"}

\* [A-Za-z\s]
AlphaClass == LetterSet \cup SpaceSet

(***************************************************************************)
(* Values: what a Python object or a JSON value is.  t is the type, v the  *)
(* payload: the characters of a str, the ordered items of a dict, the      *)
(* elements of a list.  "absent" stands for a key a dict does not hold.    *)
(***************************************************************************)
None == [t |-> "null", v |-> <<>>]

Absent == [t |-> "absent", v |-> <<>>]

Str(s) == [t |-> "str", v |-> s]

Dict(items) == [t |-> "dict", v |-> items]

List(elems) == [t |-> "list", v |-> elems]

Number == [t |-> "number", v |-> <<>>]

\* bool(x) of a profile value or a looked-up name
Truthy(x) == x.t = "str" /\ x.v # <<>>

\* a dict keeps its keys in insertion order: a sequence of items [k, v]
DHas(d, key) == \E i \in 1..Len(d) : d[i].k = key

DGet(d, key) == d[CHOOSE i \in 1..Len(d) : d[i].k = key].v

DSet(d, key, val) ==
  IF DHas(d, key)
    THEN [i \in 1..Len(d) |-> IF d[i].k = key THEN [k |-> key, v |-> val] ELSE d[i]]
    ELSE Append(d, [k |-> key, v |-> val])

DKeys(d) == [i \in 1..Len(d) |-> d[i].k]

\* datetime.now(): the clock reading, formatted by isoformat(timespec="seconds")
\* or by strftime("%Y-%m-%d %H:%M:%S")
isoformat(n) == <<"iso:", ToString(n)>>

strftime(n) == <<"ymd:", ToString(n)>>

\* the keys of self.data set in __init__, in order
DefaultKeys ==
  <<"user_name", "country", "city", "language", "facts", "relationships",
    "conversations", "flexipdf_knowledge", "meta">>

\* the keys _learn_structured_fact adds to self.data
ExtraKeys == <<"favorite_color", "hobby", "likes", "age">>

DataKeys == Range(DefaultKeys) \cup Range(ExtraKeys)

\* the text of a key of self.data
KeyChars ==
  [user_name |-> <<"u","s","e","r","_","n","a","m","e">>, country |-> <<"c","o","u","n","t","r","y">>, city |-> <<"c","i","t","y">>,
   language |-> <<"l","a","n","g","u","a","g","e">>, favorite_color |-> <<"f","a","v","o","r","i","t","e","_","c","o","l","o","r">>,
   hobby |-> <<"h","o","b","b","y">>, likes |-> <<"l","i","k","e","s">>, age |-> <<"a","g","e">>]

\* the value of "meta": a dict holding created_at or not
Meta(created) == Dict(<<[k |-> "created_at", v |-> created]>>)

\* self.data as __init__ sets it (reset_memory sets the same with a creation
\* time)
DefaultData(created) ==
  [k \in DataKeys |->
     CASE k \in {"user_name", "country", "city", "language"} -> None
       [] k \in {"facts", "relationships", "flexipdf_knowledge"} -> Dict(<<>>)
       [] k = "conversations" -> List(<<>>)
       [] k = "meta" -> Meta(created)
       [] OTHER -> Absent]

\* an exchange {user, ai, time} of the conversation log
Exchange(user_text, ai_text, time) ==
  [t |-> "dict", user |-> Str(user_text), ai |-> Str(ai_text), time |-> Str(time)]

\* a list element that is not a dict
NotADict == [t |-> "str", user |-> Absent, ai |-> Absent, time |-> Absent]

(***************************************************************************)
(* The durable record: the file memory.json.  exists says whether the file *)
(* is there, doc is what json.load makes of it: "invalid" when it does not *)
(* parse, else the type of the top-level value with the fields of a dict   *)
(* or the elements of a list.                                              *)
(***************************************************************************)
NoFields == [k \in DataKeys |-> Absent]

NoFile == [exists |-> FALSE, t |-> "invalid", fields |-> NoFields, elems |-> <<>>]

Invalid == [exists |-> TRUE, t |-> "invalid", fields |-> NoFields, elems |-> <<>>]

\* json.dump(self.data, f): every key self.data holds, with its value
dump(d) == [exists |-> TRUE, t |-> "dict", fields |-> d, elems |-> <<>>]

\* self: the instance, with the file it owns and the state of the file
\* system that holds it.  saved tells whether the last _save_memory wrote
\* the file.
Self == [data |-> data, context |-> context, disk |-> disk, saved |-> saved, fs |-> fs]

\* _save_memory: open(path, "w") and json.dump, any exception swallowed.  A
\* read-only file system fails the open and leaves the file; a full one
\* truncates the file and fails the write.
_save_memory(self) ==
  CASE self.fs = "ok" -> [self EXCEPT !.disk = dump(self.data), !.saved = TRUE]
    [] self.fs = "readonly" -> [self EXCEPT !.saved = FALSE]
    [] OTHER -> [self EXCEPT !.disk = Invalid, !.saved = FALSE]

\* a load that adopts whatever value the record holds under an expected key
IsAnything(val, default) == TRUE

\* isinstance(raw[k], type(self.data[k]))
IsInstance(val, default) == val.t = default.t

\* _load_or_init_memory, on the data of __init__
_load_or_init_memory(self, clock) ==
  LET raw == self.disk
      d == self.data
  IN  IF raw.exists
        THEN IF raw.t = "invalid"
               THEN _save_memory([self EXCEPT !.data["conversations"] = List(<<>>)])
             ELSE IF raw.t # "dict"
               THEN [self EXCEPT !.data["conversations"] =
                       IF raw.t = "list" THEN List(raw.elems) ELSE List(<<>>)]
             ELSE [self EXCEPT !.data =
                     [k \in DataKeys |->
                        IF /\ k \in Range(DefaultKeys)
                           /\ raw.fields[k].t # "absent"
                           /\ IsInstance(raw.fields[k], d[k])
                          THEN raw.fields[k]
                          ELSE d[k]]]
        ELSE _save_memory([self EXCEPT !.data["meta"] = Meta(Str(isoformat(clock)))])

\* the defaults of _seed_flexipdf_knowledge, in order
SeedDefaults ==
  << [k |-> <<"p","d","f","_","t","o","_","w","o","r","d">>,
      v |-> <<"Convert PDF files into editable Word (.docx) documents.">>],
     [k |-> <<"w","o","r","d","_","t","o","_","p","d","f">>,
      v |-> <<"Convert Word (.docx) files into clean, printable PDF files.">>],
     [k |-> <<"p","d","f","_","t","o","_","i","m","a","g","e">>,
      v |-> <<"Export pages of a PDF into high-quality image files (PNG/JPG).">>],
     [k |-> <<"i","m","a","g","e","s","_","t","o","_","p","d","f">>,
      v |-> <<"Merge multiple images into a single PDF document.">>],
     [k |-> <<"m","e","r","g","e","_","p","d","f","s">>,
      v |-> <<"Combine multiple PDF files into a single PDF.">>],
     [k |-> <<"s","p","l","i","t","_","p","d","f">>,
      v |-> <<"Split a PDF into multiple smaller PDF files by page ranges.">>],
     [k |-> <<"c","o","m","p","r","e","s","s","_","p","d","f">>,
      v |-> <<"Reduce PDF file size while keeping acceptable quality.">>],
     [k |-> <<"o","c","r","_","p","d","f">>,
      v |-> <<"(If available) Use OCR to recognize text inside scanned PDF pages.">>],
     [k |-> <<"a","i","_","a","s","s","i","s","t","a","n","t">>,
      v |-> <<"I'm Ali - the built-in AI assistant that helps with FlexiPDF tasks and answers questions.">>] >>

RECURSIVE SeedOver(_, _)
\* a seeding loop without the membership test: every default is assigned
SeedOver(kb, n) ==
  IF n > Len(SeedDefaults) THEN kb
  ELSE SeedOver(DSet(kb, SeedDefaults[n].k, SeedDefaults[n].v), n + 1)

RECURSIVE SeedFrom(_, _)
\* the loop of _seed_flexipdf_knowledge from default n on
SeedFrom(kb, n) ==
  IF n > Len(SeedDefaults) THEN kb
  ELSE SeedFrom(IF DHas(kb, SeedDefaults[n].k) THEN kb
                ELSE DSet(kb, SeedDefaults[n].k, SeedDefaults[n].v), n + 1)

_seed_flexipdf_knowledge(self) ==
  _save_memory([self EXCEPT !.data["flexipdf_knowledge"] =
                  Dict(SeedFrom(self.data["flexipdf_knowledge"].v, 1))])

\* the capacity of the context deque: the ctx_size passed to __init__
ctx_size == 2

\* a constructor that fills the context deque with the end of the loaded log
_init_recalling(f, clock) ==
  LET s == _seed_flexipdf_knowledge(
             _load_or_init_memory(
               [data |-> DefaultData(None), context |-> <<>>, disk |-> f, saved |-> TRUE,
                fs |-> fs],
               clock))
      convs == s.data["conversations"].v
      n == IF Len(convs) < ctx_size THEN Len(convs) ELSE ctx_size
  IN  [s EXCEPT !.context = SubSeq(convs, Len(convs) - n + 1, Len(convs))]

\* AliChatbot(memory_path) on the file f at clock reading clock; the
\* directory of memory_path exists and the optional sentence-transformers
\* import is absent (HAS_EMBED = False)
__init__(f, clock) ==
  _seed_flexipdf_knowledge(
    _load_or_init_memory(
      [data |-> DefaultData(None), context |-> <<>>, disk |-> f, saved |-> TRUE, fs |-> fs],
      clock))

\* list.append: a buffer that never drops its oldest element
list_append(q, maxlen, x) == Append(q, x)

\* deque.append with maxlen
deque_append(q, maxlen, x) ==
  IF maxlen = 0 THEN q
  ELSE IF Len(q) >= maxlen THEN Append(Tail(q), x)
  ELSE Append(q, x)

\* _remember_conversation without its call of _save_memory
_remember_unsaved(self, user_text, ai_text, clock) ==
  LET entry == Exchange(user_text, ai_text, strftime(clock))
  IN  [self EXCEPT !.data["conversations"] = List(Append(@.v, entry)),
                   !.context = deque_append(@, ctx_size, entry)]

\* _remember_conversation that keeps the exchange only when the save wrote it
_remember_if_saved(self, user_text, ai_text, clock) ==
  LET entry == Exchange(user_text, ai_text, strftime(clock))
      s == _save_memory(
             [self EXCEPT !.data["conversations"] = List(Append(@.v, entry)),
                          !.context = deque_append(@, ctx_size, entry)])
  IN  IF s.saved THEN s ELSE [self EXCEPT !.disk = s.disk, !.saved = FALSE]

\* _remember_conversation
_remember_conversation(self, user_text, ai_text, clock) ==
  LET entry == Exchange(user_text, ai_text, strftime(clock))
  IN  _save_memory(
        [self EXCEPT !.data["conversations"] = List(Append(@.v, entry)),
                     !.context = deque_append(@, ctx_size, entry)])

\* reset_memory without its self.context.clear()
reset_keeping_context(self, clock) ==
  _save_memory([self EXCEPT !.data = DefaultData(Str(isoformat(clock)))])

\* reset_memory: the new self (the method returns a fixed confirmation)
reset_memory(self, clock) ==
  _save_memory([self EXCEPT !.data = DefaultData(Str(isoformat(clock))),
                            !.context = <<>>])

(***************************************************************************)
(* The rule tables and the regular expressions of the extractors, of the   *)
(* resolvers and of the dispatcher: what each finds in a line              *)
(***************************************************************************)
\* patterns of _learn_structured_fact, in order: the literal part, the class
\* of the group with its longest length (0: any), the storage key
patterns ==
  << [lits |-> << <<"m","y"," ","n","a","m","e"," ","i","s">> >>, class |-> NameClass, max |-> 0, key |-> "user_name"],
     [lits |-> << <<"i"," ","a","m"," ","c","a","l","l","e","d">> >>, class |-> NameClass, max |-> 0, key |-> "user_name"],
     [lits |-> << <<"i","'","m"," ","c","a","l","l","e","d">> >>, class |-> NameClass, max |-> 0, key |-> "user_name"],
     [lits |-> << <<"m","y"," ","c","o","u","n","t","r","y"," ","i","s">> >>, class |-> AlphaClass, max |-> 0, key |-> "country"],
     [lits |-> << <<"i"," ","a","m"," ","f","r","o","m">> >>, class |-> AlphaClass, max |-> 0, key |-> "country"],
     [lits |-> << <<"f","r","o","m">> >>, class |-> AlphaClass, max |-> 0, key |-> "country"],
     [lits |-> << <<"m","y"," ","c","i","t","y"," ","i","s">> >>, class |-> AlphaClass, max |-> 0, key |-> "city"],
     [lits |-> << <<"i"," ","l","i","v","e"," ","i","n">> >>, class |-> AlphaClass, max |-> 0, key |-> "city"],
     [lits |-> << <<"m","y"," ","f","a","v","o","r","i","t","e"," ","c","o","l","o","r"," ","i","s">> >>, class |-> AlphaClass, max |-> 0,
      key |-> "favorite_color"],
     [lits |-> << <<"m","y"," ","h","o","b","b","y"," ","i","s">> >>, class |-> AlphaClass, max |-> 0, key |-> "hobby"],
     [lits |-> << <<"i"," ","l","i","k","e">> >>, class |-> AlphaClass, max |-> 0, key |-> "likes"],
     [lits |-> << <<"m","y"," ","a","g","e"," ","i","s">> >>, class |-> DigitSet, max |-> 3, key |-> "age"] >>

\* rel_patterns of _learn_structured_fact, in order; (?:name )? gives a
\* pattern two literal parts
rel_patterns ==
  << [lits |-> << <<"m","y"," ","f","r","i","e","n","d"," ","i","s">> >>, key |-> <<"f","r","i","e","n","d">>],
     [lits |-> << <<"m","y"," ","b","e","s","t"," ","f","r","i","e","n","d"," ","i","s">> >>, key |-> <<"b","e","s","t","_","f","r","i","e","n","d">>],
     [lits |-> << <<"m","y"," ","g","i","r","l","f","r","i","e","n","d"," ","i","s">> >>, key |-> <<"g","i","r","l","f","r","i","e","n","d">>],
     [lits |-> << <<"m","y"," ","b","o","y","f","r","i","e","n","d"," ","i","s">> >>, key |-> <<"b","o","y","f","r","i","e","n","d">>],
     [lits |-> << <<"m","y"," ","t","e","a","c","h","e","r"," ","i","s">> >>, key |-> <<"t","e","a","c","h","e","r">>],
     [lits |-> << <<"m","y"," ","m","o","t","h","e","r"," ","n","a","m","e"," ","i","s">>, <<"m","y"," ","m","o","t","h","e","r"," ","i","s">> >>, key |-> <<"m","o","t","h","e","r">>],
     [lits |-> << <<"m","y"," ","f","a","t","h","e","r"," ","n","a","m","e"," ","i","s">>, <<"m","y"," ","f","a","t","h","e","r"," ","i","s">> >>, key |-> <<"f","a","t","h","e","r">>],
     [lits |-> << <<"m","y"," ","s","i","s","t","e","r"," ","n","a","m","e"," ","i","s">>, <<"m","y"," ","s","i","s","t","e","r"," ","i","s">> >>, key |-> <<"s","i","s","t","e","r">>],
     [lits |-> << <<"m","y"," ","b","r","o","t","h","e","r"," ","n","a","m","e"," ","i","s">>, <<"m","y"," ","b","r","o","t","h","e","r"," ","i","s">> >>, key |-> <<"b","r","o","t","h","e","r">>],
     [lits |-> << <<"m","y"," ","c","r","u","s","h"," ","i","s">> >>, key |-> <<"c","r","u","s","h">>] >>

\* the roles answered with a heart
HeartRoles == { <<"g","i","r","l","f","r","i","e","n","d">>, <<"b","o","y","f","r","i","e","n","d">>, <<"c","r","u","s","h">> }

heart(rel) == IF rel \in HeartRoles THEN ":revolving_hearts:" ELSE ":handshake:"

\* the first pattern of _learn_structured_fact that matches text, or 0
FirstPattern(text) ==
  LET hit == {n \in 1..Len(patterns) :
                SearchCapture(text, patterns[n].lits, patterns[n].class, patterns[n].max).ok}
  IN  IF hit = {} THEN 0 ELSE Min(hit)

\* the first rel_pattern of _learn_structured_fact that matches text, or 0
FirstRelPattern(text) ==
  LET hit == {n \in 1..Len(rel_patterns) :
                SearchCapture(text, rel_patterns[n].lits, NameClass, 0).ok}
  IN  IF hit = {} THEN 0 ELSE Min(hit)

\* re.match(r"\s*(what|who|why|how)\b", text, re.IGNORECASE)
QuestionWords == << <<"w","h","a","t">>, <<"w","h","o">>, <<"w","h","y">>, <<"h","o","w">> >>

\* the guard of _learn_fact_statement with the word "what" alone
StartsWithWhat(text) ==
  LET a == RunEnd(text, 1, SpaceSet)
  IN  /\ LitAt(text, a, QuestionWords[1])
      /\ Boundary(text, a + Len(QuestionWords[1]))

StartsWithQuestionWord(text) ==
  LET a == RunEnd(text, 1, SpaceSet)
  IN  \E n \in 1..Len(QuestionWords) :
        /\ LitAt(text, a, QuestionWords[n])
        /\ Boundary(text, a + Len(QuestionWords[n]))

\* re.match(r"\s*([^?.!]+?)\s+is\s+(.+)", text, re.IGNORECASE): the subject is
\* the shortest text without ? . ! that blanks, "is", blanks and one more
\* character follow
MatchFactStatement(text) ==
  LET a == RunEnd(text, 1, SpaceSet)
      \* whether \s+is\s+(.+) matches at index j, and where the group starts
      rest(j) ==
        LET k == RunEnd(text, j, SpaceSet)
            e == RunEnd(text, k + 2, SpaceSet)
        IN  IF k > j /\ LitAt(text, k, <<"i","s">>) /\ e > k + 2
                 /\ (e <= Len(text) \/ e - (k + 2) >= 2)
              THEN IF e <= Len(text) THEN e ELSE e - 1
              ELSE 0
      \* the first index of group 1: \s* gives blanks back when it must
      starts == {b \in 1..a : \E n \in b..Len(text) :
                   /\ \A j \in b..n : text[j] \notin Punct
                   /\ rest(n + 1) # 0}
  IN  IF starts = {} THEN NoMatch
      ELSE LET b == CHOOSE x \in starts : \A y \in starts : y <= x
               n == Min({n \in b..Len(text) :
                           /\ \A j \in b..n : text[j] \notin Punct
                           /\ rest(n + 1) # 0})
           IN  Matched(SubSeq(text, b, n), SubSeq(text, rest(n + 1), Len(text)))

\* the index of the first c in text from index i on, or 0
IndexOf(text, i, c) ==
  LET hits == {j \in i..Len(text) : text[j] = c}
  IN  IF hits = {} THEN 0 ELSE Min(hits)

\* \s+<lit>\s+(.+) at index j, ignoring case: the index where the group
\* starts, or 0
BlanksLitRest(text, j, lit) ==
  LET k == RunEnd(text, j, SpaceSet)
      e == RunEnd(text, k + Len(lit), SpaceSet)
  IN  IF k > j /\ LitAt(text, k, lit) /\ e > k + Len(lit)
           /\ (e <= Len(text) \/ e - (k + Len(lit)) >= 2)
        THEN IF e <= Len(text) THEN e ELSE e - 1
        ELSE 0

\* re.search(r"ali learn\s+'([^']+)'\s+means\s+(.+)", text, re.IGNORECASE)
MatchLearn(text) ==
  LET lit == <<"a","l","i"," ","l","e","a","r","n">>
      at(i) ==
        LET k == RunEnd(text, i + Len(lit), SpaceSet)
            q == IndexOf(text, k + 1, "'")
        IN  IF /\ LitAt(text, i, lit)
               /\ k > i + Len(lit) /\ k <= Len(text) /\ text[k] = "'"
               /\ q > k + 1
               /\ BlanksLitRest(text, q + 1, <<"m","e","a","n","s">>) # 0
              THEN Matched(SubSeq(text, k + 1, q - 1),
                           SubSeq(text, BlanksLitRest(text, q + 1, <<"m","e","a","n","s">>), Len(text)))
              ELSE NoMatch
      hits == {i \in 1..Len(text) : at(i).ok}
  IN  IF hits = {} THEN NoMatch ELSE at(Min(hits))

\* re.search(r"teach ali about\s+'?([^:']+)'?:\s*(.+)", text, re.IGNORECASE)
MatchTeach(text) ==
  LET lit == <<"t","e","a","c","h"," ","a","l","i"," ","a","b","o","u","t">>
      Key == CharSet \ {":", "'"}
      at(i) ==
        LET k == RunEnd(text, i + Len(lit), SpaceSet)
            \* the group starts after the blanks and an optional quote, or,
            \* when nothing of the group follows them, at the last blank
            b == IF k <= Len(text) /\ text[k] = "'" /\ RunEnd(text, k + 1, Key) > k + 1
                   THEN k + 1
                 ELSE IF RunEnd(text, k, Key) > k THEN k
                 ELSE k - 1
            e == RunEnd(text, b, Key)
            c == IF e <= Len(text) /\ text[e] = "'" THEN e + 1 ELSE e
            g == RunEnd(text, c + 1, SpaceSet)
        IN  IF /\ LitAt(text, i, lit)
               /\ k > i + Len(lit)
               /\ b > i + Len(lit) /\ e > b
               /\ c <= Len(text) /\ text[c] = ":"
               /\ c < Len(text)
              THEN Matched(SubSeq(text, b, e - 1),
                           SubSeq(text, IF g <= Len(text) THEN g ELSE g - 1, Len(text)))
              ELSE NoMatch
      hits == {i \in 1..Len(text) : at(i).ok}
  IN  IF hits = {} THEN NoMatch ELSE at(Min(hits))


\* \s+(.+) at index j: the index where the group starts, or 0
BlanksRest(text, j) ==
  LET k == RunEnd(text, j, SpaceSet)
  IN  IF k > j /\ (k <= Len(text) \/ k - j >= 2)
        THEN IF k <= Len(text) THEN k ELSE k - 1
        ELSE 0

\* re.match(r"\s*(what is|who is|define)\s+(.+)\??", text, re.IGNORECASE)
QueryWords == << <<"w","h","a","t"," ","i","s">>, <<"w","h","o"," ","i","s">>, <<"d","e","f","i","n","e">> >>

MatchFactQuery(text) ==
  LET a == RunEnd(text, 1, SpaceSet)
      hit == {n \in 1..Len(QueryWords) :
                /\ LitAt(text, a, QueryWords[n])
                /\ BlanksRest(text, a + Len(QueryWords[n])) # 0}
  IN  IF hit = {} THEN NoMatch
      ELSE LET n == Min(hit)
           IN  Matched(SubSeq(text, a, a + Len(QueryWords[n]) - 1),
                       SubSeq(text, BlanksRest(text, a + Len(QueryWords[n])), Len(text)))

\* re.sub(r"^(the|a|an)\s+", "", term)
Articles == << <<"t","h","e">>, <<"a">>, <<"a","n">> >>

StripArticle(term) ==
  LET hit == {n \in 1..Len(Articles) :
                /\ SubSeq(term, 1, Len(Articles[n])) = Articles[n]
                /\ RunEnd(term, Len(Articles[n]) + 1, SpaceSet) > Len(Articles[n]) + 1}
  IN  IF hit = {} THEN term
      ELSE SubSeq(term, RunEnd(term, Len(Articles[Min(hit)]) + 1, SpaceSet), Len(term))

\* re.search(r"who is my ([a-z_ ]+)\??", text, re.IGNORECASE)
RoleClass == LetterSet \cup {"_", " "}

MatchWhoIsMy(text) ==
  LET lit == <<"w","h","o"," ","i","s"," ","m","y"," ">>
      hits == {i \in 1..Len(text) :
                 LitAt(text, i, lit) /\ RunEnd(text, i + Len(lit), RoleClass) > i + Len(lit)}
  IN  IF hits = {} THEN NoMatch
      ELSE LET i == Min(hits)
           IN  Matched(SubSeq(text, i + Len(lit), RunEnd(text, i + Len(lit), RoleClass) - 1),
                       <<>>)

\* q_map of _answer_personal_query, in order
q_map ==
  << [phrase |-> <<"m","y"," ","n","a","m","e">>, key |-> "user_name"],
     [phrase |-> <<"w","h","o"," ","a","m"," ","i">>, key |-> "user_name"],
     [phrase |-> <<"m","y"," ","c","o","u","n","t","r","y">>, key |-> "country"],
     [phrase |-> <<"w","h","a","t"," ","i","s"," ","m","y"," ","c","o","u","n","t","r","y">>, key |-> "country"],
     [phrase |-> <<"m","y"," ","c","i","t","y">>, key |-> "city"],
     [phrase |-> <<"w","h","a","t"," ","i","s"," ","m","y"," ","c","i","t","y">>, key |-> "city"],
     [phrase |-> <<"f","a","v","o","r","i","t","e"," ","c","o","l","o","r">>, key |-> "favorite_color"],
     [phrase |-> <<"m","y"," ","h","o","b","b","y">>, key |-> "hobby"],
     [phrase |-> <<"m","y"," ","a","g","e">>, key |-> "age"] >>

\* the first entry of a phrase table whose phrase is in the lower-cased
\* text, or 0
FirstPhrase(table, text) ==
  LET hit == {n \in 1..Len(table) : contains(lower(text), table[n].phrase)}
  IN  IF hit = {} THEN 0 ELSE Min(hit)

\* the cues of _contextual_reference
Cues == << <<"y","e","s","t","e","r","d","a","y">>, <<"e","a","r","l","i","e","r">>, <<"b","e","f","o","r","e">>, <<"l","a","s","t"," ","t","i","m","e">>, <<"y","o","u"," ","t","o","l","d"," ","m","e">> >>

\* re.search(r"what did i tell you about (.+)\??", text, re.IGNORECASE)
MatchToldAbout(text) ==
  LET lit == <<"w","h","a","t"," ","d","i","d"," ","i"," ","t","e","l","l"," ","y","o","u"," ","a","b","o","u","t"," ">>
      hits == {i \in 1..Len(text) : LitAt(text, i, lit) /\ i + Len(lit) <= Len(text)}
  IN  IF hits = {} THEN NoMatch
      ELSE Matched(SubSeq(text, Min(hits) + Len(lit), Len(text)), <<>>)


\* help_map of get_response, in order; the key of "who made you" is not
\* among the seeded ones
help_map ==
  << [phrase |-> <<"h","o","w"," ","d","o"," ","i"," ","c","o","n","v","e","r","t"," ","p","d","f"," ","t","o"," ","w","o","r","d">>, key |-> <<"p","d","f","_","t","o","_","w","o","r","d">>],
     [phrase |-> <<"c","o","n","v","e","r","t"," ","p","d","f"," ","t","o"," ","w","o","r","d">>, key |-> <<"p","d","f","_","t","o","_","w","o","r","d">>],
     [phrase |-> <<"h","o","w"," ","t","o"," ","c","o","n","v","e","r","t"," ","p","d","f"," ","t","o"," ","w","o","r","d">>, key |-> <<"p","d","f","_","t","o","_","w","o","r","d">>],
     [phrase |-> <<"p","d","f"," ","t","o"," ","w","o","r","d">>, key |-> <<"p","d","f","_","t","o","_","w","o","r","d">>],
     [phrase |-> <<"w","o","r","d"," ","t","o"," ","p","d","f">>, key |-> <<"w","o","r","d","_","t","o","_","p","d","f">>],
     [phrase |-> <<"p","d","f"," ","t","o"," ","i","m","a","g","e">>, key |-> <<"p","d","f","_","t","o","_","i","m","a","g","e">>],
     [phrase |-> <<"i","m","a","g","e","s"," ","t","o"," ","p","d","f">>, key |-> <<"i","m","a","g","e","s","_","t","o","_","p","d","f">>],
     [phrase |-> <<"m","e","r","g","e"," ","p","d","f">>, key |-> <<"m","e","r","g","e","_","p","d","f","s">>],
     [phrase |-> <<"s","p","l","i","t"," ","p","d","f">>, key |-> <<"s","p","l","i","t","_","p","d","f">>],
     [phrase |-> <<"c","o","m","p","r","e","s","s"," ","p","d","f">>, key |-> <<"c","o","m","p","r","e","s","s","_","p","d","f">>],
     [phrase |-> <<"w","h","a","t"," ","c","a","n"," ","y","o","u"," ","d","o">>, key |-> <<"a","i","_","a","s","s","i","s","t","a","n","t">>],
     [phrase |-> <<"w","h","o"," ","m","a","d","e"," ","y","o","u">>, key |-> <<"a","b","o","u","t">>] >>

\* mood_replies of get_response
mood_replies ==
  << [k |-> <<"s","a","d">>, v |-> <<"Oh no :cry: I'm here for you - want to tell me what's wrong?">>],
     [k |-> <<"h","a","p","p","y">>, v |-> <<"Yay :smile: I'm happy for you!">>],
     [k |-> <<"a","n","g","r","y">>, v |-> <<"Take a deep breath :triumph: - I'm with you.">>],
     [k |-> <<"t","i","r","e","d">>, v |-> <<"Maybe a short break will help :zzz:">>],
     [k |-> <<"b","o","r","e","d">>, v |-> <<"Let's do something fun - want a joke or a fact?">>],
     [k |-> <<"e","x","c","i","t","e","d">>, v |-> <<"Awesome! Tell me what's got you excited :tada:">>] >>

IAm == << <<"i"," ","a","m">>, <<"i","'","m">> >>

\* re.search(r"\b(i am|i'm)\s+(sad|happy|angry|tired|bored|excited)\b", lower)
MoodGate(low) ==
  \E i \in 1..Len(low) : \E a \in 1..Len(IAm) : \E n \in 1..Len(mood_replies) :
    LET k == RunEnd(low, i + Len(IAm[a]), SpaceSet)
    IN  /\ Boundary(low, i)
        /\ LitAt(low, i, IAm[a])
        /\ k > i + Len(IAm[a])
        /\ LitAt(low, k, mood_replies[n].k)
        /\ Boundary(low, k + Len(mood_replies[n].k))

\* re.search(r"\b(i am|i'm)\s+(\w+)\b", lower): group 2 of the leftmost match
MoodWord(low) ==
  LET at(i) == {a \in 1..Len(IAm) :
                  /\ Boundary(low, i)
                  /\ LitAt(low, i, IAm[a])
                  /\ RunEnd(low, i + Len(IAm[a]), SpaceSet) > i + Len(IAm[a])
                  /\ RunEnd(low, RunEnd(low, i + Len(IAm[a]), SpaceSet), WordSet)
                       > RunEnd(low, i + Len(IAm[a]), SpaceSet)}
      hits == {i \in 1..Len(low) : at(i) # {}}
  IN  IF hits = {} THEN NoMatch
      ELSE LET i == Min(hits)
               k == RunEnd(low, i + Len(IAm[Min(at(i))]), SpaceSet)
           IN  Matched(SubSeq(low, i, i + Len(IAm[Min(at(i))]) - 1),
                       SubSeq(low, k, RunEnd(low, k, WordSet) - 1))

\* re.match(r"^(hi|hello|hey|yo|hiya)\b", lower)
Greetings == << <<"h","i">>, <<"h","e","l","l","o">>, <<"h","e","y">>, <<"y","o">>, <<"h","i","y","a">> >>

IsGreeting(low) ==
  \E n \in 1..Len(Greetings) :
    LitAt(low, 1, Greetings[n]) /\ Boundary(low, 1 + Len(Greetings[n]))

\* re.match(r"(?:tell me about|what do you know about)\s+(.+)", lower)
TopicWords == << <<"t","e","l","l"," ","m","e"," ","a","b","o","u","t">>, <<"w","h","a","t"," ","d","o"," ","y","o","u"," ","k","n","o","w"," ","a","b","o","u","t">> >>

MatchTopic(low) ==
  LET hit == {n \in 1..Len(TopicWords) :
                LitAt(low, 1, TopicWords[n]) /\ BlanksRest(low, 1 + Len(TopicWords[n])) # 0}
  IN  IF hit = {} THEN NoMatch
      ELSE Matched(SubSeq(low, BlanksRest(low, 1 + Len(TopicWords[Min(hit)])), Len(low)),
                   <<>>)

\* the pattern of _learn_structured_fact that text matches first, with the
\* match: n = 0 when none does
MatchPattern(text) ==
  LET n == FirstPattern(text)
  IN  IF n = 0 THEN [n |-> 0, m |-> NoMatch]
      ELSE [n |-> n,
            m |-> SearchCapture(text, patterns[n].lits, patterns[n].class, patterns[n].max)]

\* the same for rel_patterns
MatchRelPattern(text) ==
  LET n == FirstRelPattern(text)
  IN  IF n = 0 THEN [n |-> 0, m |-> NoMatch]
      ELSE [n |-> n, m |-> SearchCapture(text, rel_patterns[n].lits, NameClass, 0)]

\* any(tok in lower for tok in [...]) of _contextual_reference
HasCue(low) == \E n \in 1..Len(Cues) : contains(low, Cues[n])

\* the entries of help_map whose phrase is in the lower-cased text
HelpPhrases(low) == {n \in 1..Len(help_map) : contains(low, help_map[n].phrase)}

\* everything the regular expressions and the phrase tables find in a line:
\* it depends on the line alone
Matches(text) ==
  [low |-> lower(text),
   pattern |-> MatchPattern(text),
   rel |-> MatchRelPattern(text),
   learn |-> MatchLearn(text),
   teach |-> MatchTeach(text),
   question |-> StartsWithQuestionWord(text),
   statement |-> MatchFactStatement(text),
   query |-> MatchFactQuery(text),
   whoismy |-> MatchWhoIsMy(text),
   personal |-> FirstPhrase(q_map, text),
   cue |-> HasCue(lower(text)),
   told |-> MatchToldAbout(text),
   help |-> HelpPhrases(lower(text)),
   moodgate |-> MoodGate(lower(text)),
   moodword |-> MoodWord(lower(text)),
   greeting |-> IsGreeting(lower(text)),
   topic |-> MatchTopic(lower(text))]

\* the input lines of a dialogue
Inputs ==
  { <<"M","y"," ","n","a","m","e"," ","i","s"," ","a","l","i"," ","k","h","a","n">>,
    <<"M","y"," ","n","a","m","e"," ","i","s"," ","5">>,
    <<"W","h","a","t"," ","i","s"," ","m","y"," ","n","a","m","e","?">>,
    <<"w","h","o"," ","a","m"," ","i">>,
    <<"M","y"," ","f","r","i","e","n","d"," ","i","s"," ","B","o","b">>,
    <<"M","y"," ","g","i","r","l","f","r","i","e","n","d"," ","i","s"," ","R","u","b","a","b">>,
    <<"W","h","o"," ","i","s"," ","m","y"," ","g","i","r","l","f","r","i","e","n","d","?">>,
    <<"L","o","v","e"," ","i","s"," ","e","m","o","t","i","o","n">>,
    <<"W","h","a","t"," ","i","s"," ","l","o","v","e">>,
    <<"A"," ","f","r","i","e","n","d"," ","i","s"," ","a"," ","g","i","f","t",".">>,
    <<"W","h","a","t"," ","i","s"," ","a"," ","f","r","i","e","n","d">>,
    <<"A","l","i"," ","l","e","a","r","n"," ","'","p","d","f"," ","s","p","l","i","t","'"," ","m","e","a","n","s"," ","d","i","v","i","d","e"," ","P","D","F"," ","i","n","t","o"," ","m","u","l","t","i","p","l","e"," ","f","i","l","e","s">>,
    <<"h","o","w"," ","t","o"," ","s","p","l","i","t"," ","p","d","f">>,
    <<" "," ">> }

\* the input lines of a dialogue that starts on a file found at startup
LoadInputs ==
  { <<"M","y"," ","n","a","m","e"," ","i","s"," ","A","l","i">>,
    <<"W","h","a","t"," ","i","s"," ","m","y"," ","n","a","m","e","?">>,
    <<"w","h","a","t"," ","d","i","d"," ","i"," ","t","e","l","l"," ","y","o","u"," ","a","b","o","u","t"," ","c","a","t","s">>,
    <<"h","i">> }

\* the input lines of a dialogue on a file system that fails
IOInputs ==
  { <<"M","y"," ","n","a","m","e"," ","i","s"," ","A","l","i">>,
    <<"L","o","v","e"," ","i","s"," ","e","m","o","t","i","o","n">>,
    <<"h","e","l","l","o"," ","A","l","i">> }

\* the input lines of a dialogue of questions that have the shape of a
\* statement, of statements and of blank lines
GuardInputs ==
  { <<"W","h","a","t"," ","i","s"," ","l","o","v","e">>,
    <<" ","w","h","o"," ","i","s"," ","b","o","b">>,
    <<"H","O","W"," ","i","s"," ","l","i","f","e">>,
    <<"w","h","y"," ","i","s"," ","x"," ","i","s"," ","y">>,
    <<"w","h","a","t","e","v","e","r"," ","i","s"," ","g","o","o","d">>,
    <<"L","o","v","e"," ","i","s"," ","e","m","o","t","i","o","n">>,
    <<" "," ">>,
    <<>> }

\* the input lines of a dialogue that teaches knowledge entries and asks
\* for them
KnowledgeInputs ==
  { <<"A","l","i"," ","l","e","a","r","n"," ","'","p","d","f"," ","s","p","l","i","t","'"," ","m","e","a","n","s"," ","d","i","v","i","d","e"," ","P","D","F"," ","i","n","t","o"," ","m","u","l","t","i","p","l","e"," ","f","i","l","e","s">>,
    <<"w","h","a","t"," ","i","s"," ","p","d","f"," ","s","p","l","i","t">>,
    <<"t","e","l","l"," ","m","e"," ","a","b","o","u","t"," ","p","d","f"," ","s","p","l","i","t">>,
    <<"A","l","i"," ","l","e","a","r","n"," ","'","O","C","R","'"," ","m","e","a","n","s"," ","r","e","a","d","i","n","g"," ","t","e","x","t">>,
    <<"d","e","f","i","n","e"," ","O","C","R">>,
    <<"t","e","l","l"," ","m","e"," ","a","b","o","u","t"," ","o","c","r">>,
    <<"t","e","a","c","h"," ","a","l","i"," ","a","b","o","u","t"," ","f","a","s","t"," ","m","o","d","e",":"," ","i","t"," ","i","s"," ","q","u","i","c","k">>,
    <<"w","h","a","t"," ","d","o"," ","y","o","u"," ","k","n","o","w"," ","a","b","o","u","t"," ","f","a","s","t"," ","m","o","d","e">> }

\* the input lines of a dialogue of lines that more than one extractor
\* matches
ExtractInputs ==
  { <<"R","u","b","a","b"," ","i","s"," ","f","r","o","m"," ","K","o","h","a","t">>,
    <<"M","y"," ","f","r","i","e","n","d"," ","i","s"," ","B","o","b">>,
    <<"M","y"," ","n","a","m","e"," ","i","s"," ","A","l","i"," ","a","n","d"," ","m","y"," ","f","r","i","e","n","d"," ","i","s"," ","B","o","b">>,
    <<"A","l","i"," ","l","e","a","r","n"," ","'","x"," ","y","'"," ","m","e","a","n","s"," ","m","y"," ","n","a","m","e"," ","i","s"," ","Z","e","d">>,
    <<"t","e","a","c","h"," ","a","l","i"," ","a","b","o","u","t"," ","f","a","s","t"," ","m","o","d","e",":"," ","i","t"," ","i","s"," ","q","u","i","c","k">>,
    <<"L","o","v","e"," ","i","s"," ","e","m","o","t","i","o","n">>,
    <<"W","h","a","t"," ","i","s"," ","l","o","v","e">> }

\* the input lines of a dialogue that teaches a little and asks every
\* resolver, the help lookup, the mood detector, the greeting, the
\* tell-me-about path and the fallback
ResolveInputs ==
  { <<"L","o","v","e"," ","i","s"," ","e","m","o","t","i","o","n">>,
    <<"M","y"," ","f","r","i","e","n","d"," ","i","s"," ","B","o","b">>,
    <<"M","y"," ","c","o","u","n","t","r","y"," ","i","s"," ","p","a","k","i","s","t","a","n">>,
    <<"M","y"," ","u","s","e","r"," ","n","a","m","e"," ","i","s"," ","A","l","i">>,
    <<"W","h","o"," ","i","s"," ","m","y"," ","f","r","i","e","n","d","?">>,
    <<"W","h","a","t"," ","i","s"," ","l","o","v","e">>,
    <<"w","h","a","t"," ","i","s"," ","m","y"," ","c","o","u","n","t","r","y">>,
    <<"W","h","a","t"," ","i","s"," ","m","y"," ","n","a","m","e","?">>,
    <<"w","h","a","t"," ","d","i","d"," ","i"," ","t","e","l","l"," ","y","o","u"," ","a","b","o","u","t"," ","l","o","v","e">>,
    <<"h","o","w"," ","t","o"," ","s","p","l","i","t"," ","p","d","f">>,
    <<"i","'","m"," ","s","a","d">>,
    <<"h","i">>,
    <<"t","e","l","l"," ","m","e"," ","a","b","o","u","t"," ","l","o","v","e">>,
    <<"o","k"," ","t","h","e","n">> }

\* lines for _contextual_reference: a remark of more than two words, a
\* short one, the topic question without and with question mark and in
\* capitals, and lines with a cue (of more than two words, of two)
RecallInputs ==
  { <<"c","a","t","s"," ","a","r","e"," ","n","i","c","e"," ","p","e","t","s">>,
    <<"h","i">>,
    <<"w","h","a","t"," ","d","i","d"," ","i"," ","t","e","l","l"," ","y","o","u"," ","a","b","o","u","t"," ","c","a","t","s">>,
    <<"w","h","a","t"," ","d","i","d"," ","i"," ","t","e","l","l"," ","y","o","u"," ","a","b","o","u","t"," ","c","a","t","s","?">>,
    <<"W","h","a","t"," ","d","i","d"," ","I"," ","t","e","l","l"," ","y","o","u"," ","a","b","o","u","t"," ","C","A","T","S">>,
    <<"w","h","a","t"," ","d","i","d"," ","y","o","u"," ","s","a","y"," ","e","a","r","l","i","e","r">>,
    <<"l","i","k","e"," ","b","e","f","o","r","e">> }

\* lines for _answer_fact_query: a fact and two knowledge entries (one
\* under the key of the fact), and definitions asked by the bare term, with
\* an article, by a term of neither store
DefineInputs ==
  { <<"L","o","v","e"," ","i","s"," ","e","m","o","t","i","o","n">>,
    <<"A","l","i"," ","l","e","a","r","n"," ","'","o","c","r","'"," ","m","e","a","n","s"," ","r","e","a","d","i","n","g"," ","t","e","x","t">>,
    <<"A","l","i"," ","l","e","a","r","n"," ","'","l","o","v","e","'"," ","m","e","a","n","s"," ","a"," ","f","e","e","l","i","n","g">>,
    <<"w","h","a","t"," ","i","s"," ","l","o","v","e">>,
    <<"W","h","a","t"," ","i","s"," ","t","h","e"," ","L","o","v","e","?">>,
    <<"w","h","o"," ","i","s"," ","o","c","r">>,
    <<"d","e","f","i","n","e"," ","t","h","e"," ","o","c","r">>,
    <<"w","h","a","t"," ","i","s"," ","a","n"," ","i","d","e","a">> }

\* the lines of the model, trimmed as get_response trims them
Lines ==
  {strip(u) : u \in Inputs \cup LoadInputs \cup IOInputs \cup GuardInputs \cup KnowledgeInputs
                      \cup ExtractInputs \cup ResolveInputs \cup RecallInputs
                      \cup DefineInputs}

\* the matches of every line of the model, found once
ScanTable == [text \in Lines |-> Matches(text)]

Scan(text) == ScanTable[text]

(***************************************************************************)
(* The methods of the instance.  A method is an operator on self: an       *)
(* extractor gives [self, ret], the instance after the call and the reply  *)
(* it returns; a resolver, which changes nothing, gives the reply.  A      *)
(* reply has ok FALSE for None and exc TRUE when the method raises.  found *)
(* is what the regular expressions and phrase tables of the method find in *)
(* text.                                                                   *)
(***************************************************************************)

NoReply == [ok |-> FALSE, text |-> <<>>, exc |-> FALSE]

Reply(text) == [ok |-> TRUE, text |-> text, exc |-> FALSE]

\* an exception that leaves the method
Raise == [ok |-> FALSE, text |-> <<>>, exc |-> TRUE]

Returns(self, ret) == [self |-> self, ret |-> ret]

\* _learn_structured_fact
_learn_structured_fact(self, text, found) ==
  LET hit == found.pattern
      rel == found.rel
  IN  IF hit.n # 0
        THEN LET p == patterns[hit.n]
                 m == hit.m
                 val == rstrip(strip(m.g1), Punct)
                 key == p.key
                 stored == IF key = "user_name" THEN title(val) ELSE capitalize(val)
                 after == _save_memory([self EXCEPT !.data[key] = Str(stored)])
             IN  Returns(after, Reply(
                   CASE key = "user_name" ->
                          <<"Nice to meet you, ">> \o stored
                            \o <<"! :dizzy: I'll remember your name.">>
                     [] key = "country" ->
                          <<"Oh nice! :earth_africa: ">> \o stored
                            \o <<" - I'll remember that.">>
                     [] key = "city" ->
                          stored \o <<" sounds like a lovely city :cityscape: - got it!">>
                     [] OTHER ->
                          <<"Got it! I've learned that your ">>
                            \o replace(KeyChars[key], "_", " ") \o <<" is ">> \o stored
                            \o <<" :brain:">>))
      ELSE IF rel.n # 0
        THEN LET p == rel_patterns[rel.n]
                 m == rel.m
                 val == title(rstrip(strip(m.g1), Punct))
                 key == p.key
                 after == _save_memory(
                            [self EXCEPT !.data["relationships"] =
                               Dict(DSet(@.v, key, val))])
             IN  Returns(after, Reply(
                   <<"Nice - I've learned your ">> \o replace(key, "_", " ")
                     \o <<" is ">> \o val \o <<" ", heart(key)>>))
      ELSE Returns(self, NoReply)

\* _learn_fact_statement that keeps the letter case of the subject
_learn_fact_cased(self, text, found) ==
  IF found.question THEN Returns(self, NoReply)
  ELSE LET m == found.statement
           subject == rstrip(strip(m.g1), Punct)
           meaning == rstrip(strip(m.g2), Punct)
       IN  IF ~m.ok \/ Len(subject) < 2 \/ Len(meaning) < 1
             THEN Returns(self, NoReply)
             ELSE Returns(
                    _save_memory([self EXCEPT !.data["facts"] =
                                    Dict(DSet(@.v, subject, meaning))]),
                    Reply(<<"Got it! I've learned that **">> \o subject
                            \o <<"** is **">> \o meaning \o <<"** :brain:">>))

\* _learn_fact_statement without its guard against questions
_learn_fact_unguarded(self, text, found) ==
  LET m == found.statement
      subject == lower(rstrip(strip(m.g1), Punct))
      meaning == rstrip(strip(m.g2), Punct)
  IN  IF ~m.ok \/ Len(subject) < 2 \/ Len(meaning) < 1
        THEN Returns(self, NoReply)
        ELSE Returns(
               _save_memory([self EXCEPT !.data["facts"] =
                               Dict(DSet(@.v, subject, meaning))]),
               Reply(<<"Got it! I've learned that **">> \o subject
                       \o <<"** is **">> \o meaning \o <<"** :brain:">>))

\* _learn_fact_statement
_learn_fact_statement(self, text, found) ==
  IF found.question THEN Returns(self, NoReply)
  ELSE LET m == found.statement
           subject == lower(rstrip(strip(m.g1), Punct))
           meaning == rstrip(strip(m.g2), Punct)
       IN  IF ~m.ok \/ Len(subject) < 2 \/ Len(meaning) < 1
             THEN Returns(self, NoReply)
             ELSE Returns(
                    _save_memory([self EXCEPT !.data["facts"] =
                                    Dict(DSet(@.v, subject, meaning))]),
                    Reply(<<"Got it! I've learned that **">> \o subject
                            \o <<"** is **">> \o meaning \o <<"** :brain:">>))

\* _learn_flexipdf_knowledge
_learn_flexipdf_knowledge(self, text, found) ==
  LET m == found.learn
      m2 == found.teach
      learn(g, head, sep) ==
        LET key == replace(lower(strip(g.g1)), " ", "_")
            explanation == rstrip(strip(g.g2), Punct)
        IN  Returns(
              _save_memory([self EXCEPT !.data["flexipdf_knowledge"] =
                              Dict(DSet(@.v, key, explanation))]),
              Reply(<<head>> \o replace(key, "_", " ") \o <<sep>> \o explanation
                      \o <<" :white_check_mark:">>))
  IN  IF m.ok THEN learn(m, "Nice! I learned that **", "** means: ")
      ELSE IF m2.ok THEN learn(m2, "Thanks - I learned about **", "**: ")
      ELSE Returns(self, NoReply)


\* _answer_fact_query
_answer_fact_query(self, text, found) ==
  LET m == found.query
      term == lower(rstrip(strip(m.g2), Punct))
      facts == self.data["facts"].v
      knowledge == self.data["flexipdf_knowledge"].v
      term_clean == StripArticle(term)
  IN  IF ~m.ok THEN NoReply
      ELSE IF DHas(facts, term)
        THEN Reply(capitalize(term) \o <<" is ">> \o DGet(facts, term) \o <<" :bulb:">>)
      ELSE IF DHas(knowledge, term)
        THEN Reply(capitalize(replace(term, "_", " ")) \o <<": ">> \o DGet(knowledge, term))
      ELSE IF DHas(facts, term_clean)
        THEN Reply(capitalize(term_clean) \o <<" is ">> \o DGet(facts, term_clean)
                     \o <<" :bulb:">>)
      ELSE NoReply

\* the loop of _answer_relationship_query over the keys of the relationship
\* map, in insertion order: the first role whose question, or whose bare
\* key, is in the lower-cased text and whose name is not empty
FirstRoleIn(rels, low) ==
  LET hit == {i \in 1..Len(rels) :
                /\ \/ contains(low,
                               <<"w","h","o"," ","i","s"," ","m","y"," ">> \o replace(rels[i].k, "_", " "))
                   \/ contains(low, rels[i].k)
                /\ rels[i].v # <<>>}
  IN  IF hit = {} THEN 0 ELSE Min(hit)

\* _answer_relationship_query
_answer_relationship_query(self, text, found) ==
  LET rels == self.data["relationships"].v
      i == FirstRoleIn(rels, found.low)
      m == found.whoismy
      key == replace(strip(m.g1), " ", "_")
  IN  IF i # 0
        THEN Reply(<<"Your ">> \o replace(rels[i].k, "_", " ") \o <<" is ">> \o rels[i].v
                     \o <<" ", heart(rels[i].k)>>)
      ELSE IF m.ok /\ DHas(rels, key) /\ DGet(rels, key) # <<>>
        THEN Reply(<<"Your ">> \o replace(key, "_", " ") \o <<" is ">> \o DGet(rels, key)
                     \o <<" :sparkling_heart:">>)
      ELSE NoReply

\* _answer_personal_query
_answer_personal_query(self, text, found) ==
  LET n == found.personal
      key == q_map[n].key
      val == self.data[key]
      shown == replace(KeyChars[key], "_", " ")
  IN  IF n = 0 THEN NoReply
      ELSE IF Truthy(val)
        THEN Reply(<<"Your ">> \o shown \o <<" is ">> \o val.v \o <<" :star2:">>)
      ELSE Reply(<<"I don't know your ">> \o shown \o <<" yet. Tell me by saying 'My ">>
                   \o shown \o <<" is ...'">>)

\* c.get("user", "") of an element of the conversation list: the element
\* must be a dict
HasGet(c) == c.t = "dict"

\* c.get("user", "").lower(): the value must be a str
UserText(c) == IF c.user.t = "absent" THEN <<>> ELSE c.user.v

\* _contextual_reference
_contextual_reference(self, text, found) ==
  LET ctx == self.context
      convs == self.data["conversations"].v
      long == {i \in 1..Len(ctx) : WordCount(UserText(ctx[i])) > 2}
      m == found.told
      topic == strip(m.g1)
      matches == {i \in 1..Len(convs) : contains(lower(UserText(convs[i])), lower(topic))}
      sample == convs[CHOOSE i \in matches : \A j \in matches : j <= i]
  IN  IF found.cue
        THEN IF long # {}
               THEN Reply(<<"You mentioned earlier: \"">>
                            \o ctx[CHOOSE i \in long : \A j \in long : j <= i].user.v
                            \o <<"\" - would you like to continue that topic?">>)
               ELSE Reply(<<"I remember bits of our last chats - what would you like to continue?">>)
      ELSE IF m.ok
        THEN IF \E i \in 1..Len(convs) :
                  ~HasGet(convs[i]) \/ convs[i].user.t \notin {"absent", "str"}
               THEN Raise
             ELSE IF matches # {}
               THEN IF sample.user.t = "absent" \/ sample.ai.t = "absent"
                         \/ sample.time.t = "absent"
                      THEN Raise
                      ELSE Reply(<<"You told me: \"">> \o sample.user.v
                                   \o <<"\" - I replied: \"">> \o sample.ai.v
                                   \o <<"\" on ">> \o sample.time.v)
             ELSE Reply(<<"I don't see that in my recent chats. Want to tell me about it now?">>)
      ELSE NoReply


\* the loop over help_map: the first entry whose phrase is in the text and
\* whose key has a non-empty answer in the knowledge base, or 0
FirstHelp(knowledge, phrases) ==
  LET hit == {n \in phrases :
                /\ DHas(knowledge, help_map[n].key)
                /\ DGet(knowledge, help_map[n].key) # <<>>}
  IN  IF hit = {} THEN 0 ELSE Min(hit)

\* self.data.get("user_name") or "friend"
NameOrFriend(self) ==
  IF Truthy(self.data["user_name"]) THEN self.data["user_name"].v ELSE <<"f","r","i","e","n","d">>

\* _friendly_fallback: templates[0]
_friendly_fallback(self, user_text) ==
  <<"Hmm :thinking: interesting, ">> \o NameOrFriend(self)
    \o <<". Tell me more about that.">>

\* steps 8 to 12 of get_response: the reply of the help lookup, the mood
\* detector, the greeting, the tell-me-about path or the fallback
LateReply(self, text, found) ==
  LET facts == self.data["facts"].v
      knowledge == self.data["flexipdf_knowledge"].v
      h == FirstHelp(knowledge, found.help)
      em == found.moodword
      m_topic == found.topic
      topic == lower(strip(m_topic.g1))
  IN  IF h # 0
        THEN DGet(knowledge, help_map[h].key)
               \o <<" If you'd like, I can guide you step-by-step.">>
      ELSE IF found.moodgate /\ em.ok /\ DHas(mood_replies, em.g2)
        THEN DGet(mood_replies, em.g2)
      ELSE IF found.greeting
        THEN <<"Hey ">> \o NameOrFriend(self)
               \o <<"! :wave: I'm Ali - your FlexiPDF AI assistant. How can I help you today?">>
      ELSE IF m_topic.ok
        THEN IF DHas(facts, topic)
               THEN capitalize(topic) \o <<" is ">> \o DGet(facts, topic)
             ELSE IF DHas(knowledge, topic) THEN DGet(knowledge, topic)
             ELSE <<"I don't have much on ">> \o topic
                    \o <<" yet - would you like to teach me? Say: Ali learn '">> \o topic
                    \o <<"' means <your explanation>">>
      ELSE _friendly_fallback(self, text)

\* the reply to an empty line
TypeSomething == <<"Type something for me to respond to :writing_hand:">>

\* the chain of get_response with the generic fact extractor first
FactFirst(self, learned, learned_fp, learned_fact, rel_ans, fact_ans, personal, ctx_ref, late) ==
  IF learned_fact.ret.ok THEN learned_fact
  ELSE IF learned.ret.ok THEN learned
  ELSE IF learned_fp.ret.ok THEN learned_fp
  ELSE IF rel_ans.ok THEN Returns(self, rel_ans)
  ELSE IF fact_ans.ok THEN Returns(self, fact_ans)
  ELSE IF personal.ok THEN Returns(self, personal)
  ELSE IF ctx_ref.exc THEN Returns(self, Raise)
  ELSE IF ctx_ref.ok THEN Returns(self, ctx_ref)
  ELSE Returns(self, Reply(late))

\* the chain of get_response on a line that is not empty: the handlers in
\* the order of the source, the first that replies; the reply of
\* _contextual_reference counts, and its exception leaves get_response, only
\* when no handler before it replied
FirstReply(self, learned, learned_fp, learned_fact, rel_ans, fact_ans, personal, ctx_ref, late) ==
  IF learned.ret.ok THEN learned
  ELSE IF learned_fp.ret.ok THEN learned_fp
  ELSE IF learned_fact.ret.ok THEN learned_fact
  ELSE IF rel_ans.ok THEN Returns(self, rel_ans)
  ELSE IF fact_ans.ok THEN Returns(self, fact_ans)
  ELSE IF personal.ok THEN Returns(self, personal)
  ELSE IF ctx_ref.exc THEN Returns(self, Raise)
  ELSE IF ctx_ref.ok THEN Returns(self, ctx_ref)
  ELSE Returns(self, Reply(late))

\* steps 1 to 12 of get_response on the trimmed line text
Handlers(self, text, found) ==
  FirstReply(self,
             _learn_structured_fact(self, text, found),
             _learn_flexipdf_knowledge(self, text, found),
             _learn_fact_statement(self, text, found),
             _answer_relationship_query(self, text, found),
             _answer_fact_query(self, text, found),
             _answer_personal_query(self, text, found),
             _contextual_reference(self, text, found),
             LateReply(self, text, found))

\* self._remember_conversation(text, reply) before every return of a reply
Logged(r, text, clock) ==
  IF r.ret.exc THEN r
  ELSE Returns(_remember_conversation(r.self, text, r.ret.text, clock), r.ret)

\* get_response that logs the reply to an empty line as any other reply
RespondLoggingAll(self, text, clock) ==
  Logged(IF text = <<>> THEN Returns(self, Reply(TypeSomething))
         ELSE Handlers(self, text, Scan(text)),
         text, clock)

\* get_response from text = user_input.strip() on
Respond(self, text, clock) ==
  IF text = <<>> THEN Returns(self, Reply(TypeSomething))
  ELSE Logged(Handlers(self, text, Scan(text)), text, clock)

\* get_response: [self, ret], ret.exc when the call raises
get_response(self, user_input, clock) == Respond(self, strip(user_input), clock)

(***************************************************************************)
(* The program: one instance at a time owns the file; a restart builds a   *)
(* new instance on the file the old one left.  now counts the public       *)
(* operations and is the reading of the clock.  last and prev record the   *)
(* last two operations, logged the exchanges logged since the instance was *)
(* built or reset.                                                         *)
(***************************************************************************)
\* the number of public operations of a run
MaxOps == 3

\* what a public operation did: the operation, its argument, what it
\* returned, the file a constructor found, whether the file was written last
Done(op, input, ret, file, wrote) ==
  [op |-> op, input |-> input, ret |-> ret, file |-> file, saved |-> wrote]

ResetReply == <<"Memory reset - fresh start :sparkles:">>

\* a file whose top-level value is a list of elems
ListFile(elems) == [exists |-> TRUE, t |-> "list", fields |-> NoFields, elems |-> elems]

\* a file whose top-level value is a number, a string or null
ScalarFile == [exists |-> TRUE, t |-> "scalar", fields |-> NoFields, elems |-> <<>>]

\* a file whose top-level value is a dict that holds the keys of fields
DictFile(fields) ==
  [exists |-> TRUE, t |-> "dict",
   fields |-> [k \in DataKeys |-> IF k \in DOMAIN fields THEN fields[k] ELSE Absent],
   elems |-> <<>>]

\* a dict whose fields have the wrong shapes: a list for facts, a dict for
\* conversations, a number for meta, a string for user_name
WrongShapes ==
  DictFile([user_name |-> Str(<<"A","l","i">>), facts |-> List(<<>>), conversations |-> Dict(<<>>),
            relationships |-> Dict(<<[k |-> <<"f","r","i","e","n","d">>, v |-> <<"B","o","b">>]>>),
            meta |-> Number])

\* the record an earlier session left that learned a relationship, a fact
\* and a knowledge entry and logged an exchange
Earlier ==
  DictFile([user_name |-> None, country |-> None, city |-> None, language |-> None,
            facts |-> Dict(<<[k |-> <<"l","o","v","e">>, v |-> <<"e","m","o","t","i","o","n">>]>>),
            relationships |-> Dict(<<[k |-> <<"f","r","i","e","n","d">>, v |-> <<"B","o","b">>]>>),
            conversations |-> List(<<Exchange(<<"h","i">>, <<"Hey friend!">>, strftime(0))>>),
            flexipdf_knowledge |->
              Dict(Append(SeedDefaults,
                          [k |-> <<"p","d","f","_","s","p","l","i","t">>, v |-> <<"d","i","v","i","d","e"," ","P","D","F"," ","i","n","t","o"," ","m","u","l","t","i","p","l","e"," ","f","i","l","e","s">>])),
            meta |-> Meta(Str(isoformat(0)))])

\* the record of a session that began with an empty knowledge base, taught
\* the seeded key split_pdf a text of its own and taught a key of its own
Retaught ==
  DictFile([flexipdf_knowledge |->
              Dict(<<[k |-> <<"s","p","l","i","t","_","p","d","f">>, v |-> <<"c","u","t"," ","t","h","e"," ","f","i","l","e"," ","i","n"," ","t","w","o">>],
                     [k |-> <<"p","d","f","_","s","p","l","i","t">>, v |-> <<"d","i","v","i","d","e"," ","P","D","F"," ","i","n","t","o"," ","m","u","l","t","i","p","l","e"," ","f","i","l","e","s">>]>>)])

\* the files an instance may find at startup: none, one that does not
\* parse, bare lists (of a string; of an exchange without ai and time), a
\* scalar, a dict without most fields, a dict with wrongly shaped fields, a
\* dict whose log holds an exchange with a null user, a well-formed record,
\* a record whose knowledge base holds a seeded key with another text
Files ==
  { NoFile,
    Invalid,
    ListFile(<<NotADict>>),
    ListFile(<<[t |-> "dict", user |-> Str(<<"c","a","t","s"," ","a","r","e"," ","n","i","c","e"," ","p","e","t","s">>), ai |-> Absent,
               time |-> Absent]>>),
    ScalarFile,
    DictFile([meta |-> Dict(<<>>)]),
    WrongShapes,
    DictFile([conversations |->
                List(<<[t |-> "dict", user |-> None, ai |-> Str(<<"ok">>),
                        time |-> Str(strftime(0))]>>)]),
    Earlier,
    Retaught }

\* the threads that serve the requests of index.py
Threads == {"t1", "t2"}

\* a thread that serves no request
Idle == [pc |-> "idle", op |-> "none", line |-> <<>>, ret |-> NoReply,
         snap |-> DefaultData(None)]

\* the state when the constructor made the instance s on the file f
Started(f, s) ==
  /\ data = s.data
  /\ context = s.context
  /\ disk = s.disk
  /\ saved = s.saved
  /\ last = Done("init", <<>>, NoReply, f, s.saved)

InitOn(files) ==
  /\ fs = "ok"
  /\ now = 0
  /\ \E f \in files : Started(f, __init__(f, 0))
  /\ prev = Done("none", <<>>, NoReply, NoFile, TRUE)
  /\ logged = 0
  /\ calls = [t \in Threads |-> Idle]

\* the step of a public operation op(input) that makes the instance r.self
\* and returns r.ret; logged counts the exchanges get_response adds and
\* starts again when the instance is built or reset
Step(op, input, r, file) ==
  /\ data' = r.self.data
  /\ context' = r.self.context
  /\ disk' = r.self.disk
  /\ saved' = r.self.saved
  /\ last' = Done(op, input, r.ret, file, r.self.saved)
  /\ prev' = last
  /\ logged' = IF op = "get_response"
                 THEN logged + Len(r.self.data["conversations"].v)
                        - Len(data["conversations"].v)
                 ELSE 0
  /\ UNCHANGED <<fs, calls>>

\* bot.get_response(u)
GetResponse(u) ==
  /\ now < MaxOps
  /\ now' = now + 1
  /\ Step("get_response", u, get_response(Self, u, now'), NoFile)

\* bot.reset_memory()
ResetMemory ==
  /\ now < MaxOps
  /\ now' = now + 1
  /\ Step("reset_memory", <<>>, Returns(reset_memory(Self, now'), Reply(ResetReply)), NoFile)

\* the process ends and a new one builds its instance on the same file
Restart ==
  /\ now < MaxOps
  /\ now' = now + 1
  /\ Step("init", <<>>, Returns(__init__(disk, now'), NoReply), disk)

\* the file system changes: it works, it is read-only, or it is full
FsChange ==
  /\ \E m \in {"ok", "readonly", "full"} \ {fs} : fs' = m
  /\ UNCHANGED <<data, context, disk, now, last, prev, logged, saved, calls>>

\* a dialogue of a fresh installation
Init == InitOn({NoFile})

Next ==
  \/ \E u \in Inputs : GetResponse(u)
  \/ ResetMemory
  \/ Restart

Spec == Init /\ [][Next]_vars

\* a dialogue on whatever file the first instance finds
InitLoad == InitOn(Files)

NextLoad ==
  \/ \E u \in LoadInputs : GetResponse(u)
  \/ ResetMemory
  \/ Restart

SpecLoad == InitLoad /\ [][NextLoad]_vars

\* a dialogue on a file system that may fail
NextIO ==
  \/ \E u \in IOInputs : GetResponse(u)
  \/ ResetMemory
  \/ Restart
  \/ FsChange

SpecIO == Init /\ [][NextIO]_vars

\* a dialogue of questions, statements and blank lines
NextGuard ==
  \/ \E u \in GuardInputs : GetResponse(u)
  \/ ResetMemory
  \/ Restart

SpecGuard == Init /\ [][NextGuard]_vars

\* a dialogue that teaches knowledge entries and asks for them
NextKnowledge ==
  \/ \E u \in KnowledgeInputs : GetResponse(u)
  \/ ResetMemory
  \/ Restart

SpecKnowledge == Init /\ [][NextKnowledge]_vars

(***************************************************************************)
(* Requests served at the same time.  index.py holds one instance and no   *)
(* lock; each request runs get_response or reset_memory in its own thread, *)
(* and a thread may be descheduled between the statements of a method.     *)
(* calls is the position of each thread: "remember" before                 *)
(* _remember_conversation, "open" before the open() of _save_memory,       *)
(* "close" while the file is open and json.dump has serialised the store.  *)
(* logged counts here the chat requests that returned since the start or   *)
(* since the last clear request returned.                                  *)
(***************************************************************************)
\* the lines of the chat requests
ThreadInputs == { <<"h","i">>, <<"h","e","l","l","o"," ","A","l","i">> }

\* the thread t got the reply r.ret of the handlers of get_response, which
\* left the instance r.self
Received(t, line, r) ==
  /\ data' = r.self.data
  /\ context' = r.self.context
  /\ disk' = r.self.disk
  /\ saved' = r.self.saved
  /\ calls' = [calls EXCEPT ![t] = [Idle EXCEPT !.pc = "remember", !.op = "get_response",
                                                 !.line = line, !.ret = r.ret]]
  /\ UNCHANGED <<fs, last, prev, logged>>

\* POST /api/chat: get_response up to the reply of its handlers
Chat(t, u) ==
  /\ calls[t].pc = "idle"
  /\ now < MaxOps
  /\ now' = now + 1
  /\ Received(t, strip(u), Handlers(Self, strip(u), Scan(strip(u))))

\* _remember_conversation up to its call of _save_memory: the exchange is
\* appended to the log and to the buffer
Remember(t) ==
  /\ calls[t].pc = "remember"
  /\ data' = [data EXCEPT !["conversations"] =
                List(Append(@.v, Exchange(calls[t].line, calls[t].ret.text, strftime(now))))]
  /\ context' = deque_append(context, ctx_size,
                             Exchange(calls[t].line, calls[t].ret.text, strftime(now)))
  /\ calls' = [calls EXCEPT ![t].pc = "open"]
  /\ UNCHANGED <<disk, fs, now, last, prev, logged, saved>>

\* DELETE /api/chat/clear: reset_memory up to its call of _save_memory
Clear(t) ==
  /\ calls[t].pc = "idle"
  /\ now < MaxOps
  /\ now' = now + 1
  /\ data' = DefaultData(Str(isoformat(now')))
  /\ context' = <<>>
  /\ calls' = [calls EXCEPT ![t] = [Idle EXCEPT !.pc = "open", !.op = "reset_memory",
                                                 !.ret = Reply(ResetReply)]]
  /\ UNCHANGED <<disk, fs, last, prev, logged, saved>>

\* _save_memory: open(path, "w") truncates the file and json.dump serialises
\* the store as it is
Open(t) ==
  /\ calls[t].pc = "open"
  /\ disk' = Invalid
  /\ calls' = [calls EXCEPT ![t].pc = "close", ![t].snap = data]
  /\ UNCHANGED <<data, context, fs, now, last, prev, logged, saved>>

\* what the file holds when text is written from its start on a file that
\* holds f: the text when the file was empty or holds the same text; the
\* text, or, when the text is the shorter, a text that does not parse, when
\* another thread has written the file since this one opened it
WrittenOver(f, text) ==
  IF f.t = "dict" /\ f # text THEN {text, Invalid} ELSE {text}

\* the file is closed, what was serialised reaches it, and the request
\* returns
Close(t) ==
  /\ calls[t].pc = "close"
  /\ disk' \in WrittenOver(disk, dump(calls[t].snap))
  /\ saved' = TRUE
  /\ calls' = [calls EXCEPT ![t] = Idle]
  /\ last' = Done(calls[t].op, calls[t].line, calls[t].ret, NoFile, TRUE)
  /\ prev' = last
  /\ logged' = IF calls[t].op = "get_response" THEN logged + 1 ELSE 0
  /\ UNCHANGED <<data, context, fs, now>>

NextThreads ==
  \/ \E t \in Threads, u \in ThreadInputs : Chat(t, u)
  \/ \E t \in Threads : Remember(t)
  \/ \E t \in Threads : Clear(t)
  \/ \E t \in Threads : Open(t)
  \/ \E t \in Threads : Close(t)

SpecThreads == Init /\ [][NextThreads]_vars

\* a dialogue of lines that more than one extractor matches
NextExtract ==
  \/ \E u \in ExtractInputs : GetResponse(u)
  \/ ResetMemory
  \/ Restart

SpecExtract == Init /\ [][NextExtract]_vars

\* a dialogue that teaches a little and asks every resolver and fallback
NextResolve ==
  \/ \E u \in ResolveInputs : GetResponse(u)
  \/ ResetMemory
  \/ Restart

SpecResolve == Init /\ [][NextResolve]_vars

\* the record of an earlier session that logged one remark about cats
Told ==
  DictFile([user_name |-> None, country |-> None, city |-> None, language |-> None,
            facts |-> Dict(<<>>),
            relationships |-> Dict(<<>>),
            conversations |->
              List(<<Exchange(<<"m","y"," ","c","a","t","s"," ","s","l","e","e","p"," ","a","l","l"," ","d","a","y">>, <<"ok">>, strftime(0))>>),
            flexipdf_knowledge |-> Dict(SeedDefaults),
            meta |-> Meta(Str(isoformat(0)))])

\* a dialogue of remarks and of questions about what was said, on a fresh
\* installation or on the record of an earlier session
InitRecall == InitOn({NoFile, Told})

NextRecall ==
  \/ \E u \in RecallInputs : GetResponse(u)
  \/ ResetMemory
  \/ Restart

SpecRecall == InitRecall /\ [][NextRecall]_vars

\* a dialogue that teaches a fact and knowledge entries and asks for
\* definitions
NextDefine ==
  \/ \E u \in DefineInputs : GetResponse(u)
  \/ ResetMemory
  \/ Restart

SpecDefine == Init /\ [][NextDefine]_vars

(***************************************************************************)
(* Properties.  last is the operation that made the state, prev the one    *)
(* before it.                                                              *)
(***************************************************************************)
\* the last two operations were calls of get_response that returned replies
TwoReplies ==
  /\ prev.op = "get_response" /\ prev.ret.ok
  /\ last.op = "get_response" /\ ~last.ret.exc

\* what the tables find in the line of prev and of last
PrevFound == Scan(strip(prev.input))

LastFound == Scan(strip(last.input))

\* the name a teaching "My <role> is <Name>" stores
TaughtName == title(rstrip(strip(PrevFound.rel.m.g1), Punct))

\* C1: when "My <role> is <Name>" was learned by the relationship rules and
\* the next call asks "Who is my <role>?", the reply contains <Name>,
\* whatever other roles were taught before
RelationshipRoundTrip ==
  \A n \in 1..Len(rel_patterns) :
    ( /\ TwoReplies
      /\ Head(prev.ret.text) = "Nice - I've learned your "
      /\ PrevFound.rel.n = n
      /\ LastFound.low = <<"w","h","o"," ","i","s"," ","m","y"," ">> \o replace(rel_patterns[n].key, "_", " ") \o <<"?">> )
    => /\ last.ret.ok
       /\ contains(last.ret.text, TaughtName)

\* the explanation a teaching "Ali learn '<topic>' means <explanation>" stores
TaughtExplanation == rstrip(strip(PrevFound.learn.g2), Punct)

\* C2: when "Ali learn 'pdf split' means <explanation>" was learned, the
\* knowledge base maps pdf_split to the explanation, and a next line with
\* the help phrase "split pdf" gets a reply that contains the explanation
KnowledgeThenHelp ==
  ( /\ TwoReplies
    /\ Head(prev.ret.text) = "Nice! I learned that **"
    /\ replace(lower(strip(PrevFound.learn.g1)), " ", "_") = <<"p","d","f","_","s","p","l","i","t">>
    /\ contains(LastFound.low, <<"s","p","l","i","t"," ","p","d","f">>) )
  => /\ DHas(data["flexipdf_knowledge"].v, <<"p","d","f","_","s","p","l","i","t">>)
     /\ DGet(data["flexipdf_knowledge"].v, <<"p","d","f","_","s","p","l","i","t">>) = TaughtExplanation
     /\ last.ret.ok
     /\ contains(last.ret.text, TaughtExplanation)

\* the fields a restart is to keep: all but meta
Persisted == DataKeys \ {"meta"}

\* a step that builds a new instance on the file of an instance that holds a
\* name, a relationship, a fact and a taught knowledge entry
RestartOfLearned ==
  /\ now' # now
  /\ last'.op = "init"
  /\ Truthy(data["user_name"])
  /\ data["relationships"].v # <<>>
  /\ data["facts"].v # <<>>
  /\ DHas(data["flexipdf_knowledge"].v, <<"p","d","f","_","s","p","l","i","t">>)

\* C3: a new instance built on the file of an instance that learned a name,
\* a relationship, a fact and a knowledge entry holds the same profile,
\* relationships, facts, knowledge and conversation log
RestartRoundTrip ==
  [][RestartOfLearned => \A k \in Persisted : data'[k] = data[k]]_vars

\* the name a teaching "My name is <Name>" stores
TaughtUserName == title(rstrip(strip(PrevFound.pattern.m.g1), Punct))

\* C4: when "My name is <Name>" was learned and the next call asks "What is
\* my name?" or "who am i", the reply contains <Name> in title case
NameRoundTrip ==
  ( /\ TwoReplies
    /\ Head(prev.ret.text) = "Nice to meet you, "
    /\ PrevFound.pattern.n = 1
    /\ LastFound.low \in {<<"w","h","a","t"," ","i","s"," ","m","y"," ","n","a","m","e","?">>, <<"w","h","o"," ","a","m"," ","i">>} )
  => /\ last.ret.ok
     /\ contains(last.ret.text, TaughtUserName)

\* the subject and the meaning of a statement "<S> is <D>", trimmed of
\* blanks and of trailing punctuation
TaughtSubject == rstrip(strip(PrevFound.statement.g1), Punct)

TaughtMeaning == rstrip(strip(PrevFound.statement.g2), Punct)

\* "<S> is <D>" was learned by the generic fact extractor and the next call
\* asks "What is <S>"
FactThenQuery ==
  /\ TwoReplies
  /\ Head(prev.ret.text) = "Got it! I've learned that **"
  /\ rstrip(LastFound.low, Punct) = <<"w","h","a","t"," ","i","s"," ">> \o lower(TaughtSubject)

\* the fact table maps the lower-cased subject to the meaning and the reply
\* contains the meaning
FactAnswered ==
  /\ DHas(data["facts"].v, lower(TaughtSubject))
  /\ DGet(data["facts"].v, lower(TaughtSubject)) = TaughtMeaning
  /\ last.ret.ok
  /\ contains(last.ret.text, TaughtMeaning)

\* the relationship resolver has no answer for the line of last: no role
\* stored with a name is mentioned in it
NoRoleMentioned ==
  ~_answer_relationship_query(Self, strip(last.input), LastFound).ok

\* C5: when "<S> is <D>" was learned by the generic fact extractor, the fact
\* table maps lower-cased S to D and a next "What is <S>" gets a reply that
\* contains D, provided the query mentions no role stored with a name in the
\* relationship map
FactRoundTrip == (FactThenQuery /\ NoRoleMentioned) => FactAnswered

\* C5 as stated, from any store state: the same without the proviso
FactRoundTripAnyStore == FactThenQuery => FactAnswered

\* a fact taught and asked for while a relationship is stored
FactRoundTripReached ==
  /\ FactThenQuery
  /\ NoRoleMentioned
  /\ data["relationships"].v # <<>>
  /\ FactAnswered

\* C6: get_response returns a reply, it never raises
NeverRaises == last.op = "get_response" => ~last.ret.exc

\* every expected field of d has the type of its default
DefaultShaped(d) ==
  /\ \A k \in {"user_name", "country", "city", "language"} : d[k].t = "null"
  /\ \A k \in {"facts", "relationships", "flexipdf_knowledge", "meta"} : d[k].t = "dict"
  /\ d["conversations"].t = "list"

\* the file holds a dict whose expected fields have the types of the defaults
ValidRecord(f) == f.exists /\ f.t = "dict" /\ DefaultShaped(f.fields)

\* C7: when the constructor returns, whatever file it found, every expected
\* field of the store has the shape of its default and the file is a valid
\* record of the store
LoadRepair ==
  last.op = "init" => /\ DefaultShaped(data)
                      /\ ValidRecord(disk)
                      /\ disk = dump(data)

\* the constructor returned on the file with wrongly shaped fields
LoadRepairReached ==
  /\ last.op = "init"
  /\ last.file = WrongShapes
  /\ DefaultShaped(data)
  /\ disk = dump(data)

\* the conversation log
Log == data["conversations"].v

\* C8: the context buffer holds at most ctx_size exchanges; once ctx_size + 1
\* exchanges were logged since start or reset it holds the ctx_size most
\* recent of them in logging order, and none of the older ones
ContextBound ==
  /\ Len(context) <= ctx_size
  /\ logged > ctx_size =>
       /\ context = SubSeq(Log, Len(Log) - ctx_size + 1, Len(Log))
       /\ \A i \in (Len(Log) - logged + 1)..(Len(Log) - ctx_size) :
            Log[i] \notin Range(context)

\* ctx_size + 1 exchanges were logged and the buffer is full
ContextBoundReached ==
  /\ logged = ctx_size + 1
  /\ Len(context) = ctx_size
  /\ Log[Len(Log) - ctx_size] \notin Range(context)

\* C9: a call of get_response on a line that is not blank appends one
\* exchange {trimmed line, reply, time} to the conversation log, and only
\* reset_memory makes the log shorter
Logging ==
  [][ /\ ( /\ now' # now
           /\ last'.op = "get_response"
           /\ strip(last'.input) # <<>> )
         => data'["conversations"].v =
              Append(Log, Exchange(strip(last'.input), last'.ret.text, strftime(now')))
      /\ ( /\ now' # now
           /\ last'.op # "reset_memory" )
         => Len(data'["conversations"].v) >= Len(Log) ]_vars

\* C10: when the last save did not fail, the file is the dump of the store
Durability == saved => disk = dump(data)

\* a reply was logged and saved after a save had failed
DurabilityReached ==
  /\ last.op = "get_response"
  /\ ~prev.saved
  /\ saved
  /\ Log # <<>>
  /\ disk = dump(data)

\* the store holds nothing learned and nothing logged
NothingLearned ==
  /\ \A k \in {"user_name", "country", "city", "language"} : data[k] = None
  /\ \A k \in Range(ExtraKeys) : data[k] = Absent
  /\ \A k \in {"facts", "relationships", "flexipdf_knowledge"} : data[k] = Dict(<<>>)
  /\ Log = <<>>

\* C11: after reset_memory the profile fields are unset, the relationship
\* map, the fact table, the knowledge base, the conversation log and the
\* context buffer are empty and the confirmation is returned; a second
\* reset_memory right after the first leaves every field but the creation
\* time as it was and returns the same confirmation
ResetIdempotent ==
  /\ [](last.op = "reset_memory" =>
          /\ NothingLearned
          /\ context = <<>>
          /\ data["meta"] = Meta(Str(isoformat(now)))
          /\ last.ret = Reply(ResetReply))
  /\ [][ ( /\ last.op = "reset_memory"
           /\ last'.op = "reset_memory"
           /\ now' # now )
         => /\ \A k \in Persisted : data'[k] = data[k]
            /\ context' = context
            /\ last'.ret = last.ret ]_vars

\* reset_memory was called twice in a row
ResetIdempotentReached ==
  /\ prev.op = "reset_memory"
  /\ last.op = "reset_memory"
  /\ NothingLearned
  /\ context = <<>>

\* the first word of a line in lower case: what stands between the leading
\* blanks and the next blank
FirstWord(text) ==
  LET t == strip(text)
      ends == {i \in 1..Len(t) : t[i] \in SpaceSet}
      n == IF ends = {} THEN Len(t) + 1 ELSE CHOOSE i \in ends : \A j \in ends : i <= j
  IN  lower(SubSeq(t, 1, n - 1))

\* the last call was get_response on a line whose first word is what, who,
\* why or how
AskedWithQuestionWord ==
  /\ last.op = "get_response"
  /\ FirstWord(last.input) \in {<<"w","h","a","t">>, <<"w","h","o">>, <<"w","h","y">>, <<"h","o","w">>}

\* C12: a call of get_response on a line whose first word is what, who, why
\* or how, in any letter case and after any leading blanks, leaves the fact
\* table unchanged
QuestionGuard ==
  [][ (now' # now /\ AskedWithQuestionWord')
        => data'["facts"] = data["facts"] ]_vars

\* a question that starts with blanks and has the shape "<subject> is
\* <definition>" was asked of a store that holds a fact
QuestionGuardReached ==
  /\ AskedWithQuestionWord
  /\ Head(last.input) \in SpaceSet
  /\ LastFound.statement.ok
  /\ last.ret.ok
  /\ data["facts"].v # <<>>

\* the term of a line "what is <S>": lower-cased, without closing punctuation
AskedTerm(text) == lower(rstrip(strip(Scan(strip(text)).query.g2), Punct))

\* the line is a query "what is <S>" for a term that neither the fact table
\* nor the knowledge base of the store holds
UnknownTerm(text) ==
  /\ strip(text) # <<>>
  /\ Scan(strip(text)).query.ok
  /\ lower(Scan(strip(text)).query.g1) = <<"w","h","a","t"," ","i","s">>
  /\ ~DHas(data["facts"].v, AskedTerm(text))
  /\ ~DHas(data["flexipdf_knowledge"].v, AskedTerm(text))

\* the reply says that something is not known or how to teach it: the
\* prompt of the personal query or the invitation of the tell-me-about path
NotFoundStyle(reply) ==
  /\ reply.ok
  /\ Head(reply.text) \in {"I don't know your ", "I don't have much on "}

\* C13: get_response("What is <S>") on a store whose fact table and
\* knowledge base do not hold S returns a reply that says the term is
\* unknown or how to teach it, does not raise, and changes nothing but the
\* log and the context buffer, which gain the exchange
UnknownTermQuery ==
  [][ (now' # now /\ last'.op = "get_response" /\ UnknownTerm(last'.input))
        => /\ ~last'.ret.exc
           /\ NotFoundStyle(last'.ret)
           /\ \A k \in DataKeys \ {"conversations"} : data'[k] = data[k]
           /\ data'["conversations"].v =
                Append(Log, Exchange(strip(last'.input), last'.ret.text, strftime(now')))
           /\ context' = deque_append(context, ctx_size, data'["conversations"].v[Len(Log) + 1])
    ]_vars

\* the match of the line that taught a knowledge entry: "Ali learn '<K>'
\* means <E>" or "teach ali about <K>: <E>"
TaughtEntry == IF PrevFound.learn.ok THEN PrevFound.learn ELSE PrevFound.teach

\* the key as the user wrote it, in lower case
TaughtKey == lower(strip(TaughtEntry.g1))

\* the last two calls taught a knowledge entry and asked for its key with
\* one of the four forms of a definition query
TaughtThenAsked ==
  /\ TwoReplies
  /\ PrevFound.learn.ok \/ PrevFound.teach.ok
  /\ Head(prev.ret.text) \in {"Nice! I learned that **", "Thanks - I learned about **"}
  /\ lower(strip(last.input)) \in
       { <<"w","h","a","t"," ","i","s"," ">> \o TaughtKey, <<"d","e","f","i","n","e"," ">> \o TaughtKey,
         <<"t","e","l","l"," ","m","e"," ","a","b","o","u","t"," ">> \o TaughtKey, <<"w","h","a","t"," ","d","o"," ","y","o","u"," ","k","n","o","w"," ","a","b","o","u","t"," ">> \o TaughtKey }
  /\ ~DHas(data["facts"].v, TaughtKey)

\* C14: after a key K of one or several words was taught with its
\* explanation E, a definition query for K returns a reply that holds E,
\* provided no fact with the subject K exists
KnowledgeKeyAgreement ==
  TaughtThenAsked => contains(last.ret.text, rstrip(strip(TaughtEntry.g2), Punct))

\* the last call was get_response on a line of blanks or of no character
AskedNothing ==
  /\ last.op = "get_response"
  /\ \A i \in 1..Len(last.input) : last.input[i] \in SpaceSet

\* C15: get_response on an empty line or a line of blanks returns the fixed
\* prompt to type something and leaves the store (profile, relationship map,
\* fact table, knowledge base, conversation log), the context buffer and the
\* file unchanged
EmptyInputNoEffect ==
  [][ (now' # now /\ AskedNothing')
        => /\ last'.ret = Reply(TypeSomething)
           /\ data' = data
           /\ context' = context
           /\ disk' = disk ]_vars

\* a line of blanks was answered by an instance that had learned a fact and
\* logged an exchange
EmptyInputReached ==
  /\ AskedNothing
  /\ last.input # <<>>
  /\ last.ret = Reply(TypeSomething)
  /\ data["facts"].v # <<>>
  /\ Log # <<>>
  /\ context # <<>>

\* the instance on a file system that works
Working(self) == [self EXCEPT !.fs = "ok"]

\* what the call that made last' out of this state returns and leaves when
\* its saves work
WithWorkingSave(op, input) ==
  IF op = "reset_memory"
    THEN Returns(reset_memory(Working(Self), now + 1), Reply(ResetReply))
    ELSE get_response(Working(Self), input, now + 1)

\* the reply and the store and buffer in memory are those of r
SameOutcome(r, ret, d, c) == ret = r.ret /\ d = r.self.data /\ c = r.self.context

\* C16: a call of get_response or reset_memory whose save fails returns the
\* reply, and leaves in memory the store and the context buffer, that it
\* returns and leaves when the save works, and no exception leaves it
SaveFailureSwallowed ==
  [][ ( /\ now' # now
        /\ fs # "ok"
        /\ last'.op \in {"get_response", "reset_memory"} )
      => /\ last'.ret.ok
         /\ ~last'.ret.exc
         /\ SameOutcome(WithWorkingSave(last'.op, last'.input), last'.ret, data', context')
    ]_vars

\* a name was learned and the exchange logged by a call whose saves failed
SaveFailureReached ==
  /\ last.op = "get_response"
  /\ fs # "ok"
  /\ ~saved
  /\ last.ret.ok
  /\ prev.saved
  /\ data["user_name"] = Str(<<"A","l","i">>)
  /\ Log # <<>>
  /\ context # <<>>
  /\ disk # dump(data)

\* every request has returned
AllReturned == \A t \in Threads : calls[t].pc = "idle"

\* no clear request was made: the store is the one the constructor made
NeverCleared == data["meta"] = Meta(Str(isoformat(0)))

\* C17: requests served at the same time on the one instance are
\* serialized: once all of them have returned, the file is the dump of the
\* store and, when all of them were chat requests, the conversation log
\* holds one exchange for each
Serialized ==
  AllReturned => /\ disk = dump(data)
                 /\ NeverCleared => Len(Log) = logged

\* the profile fields of the store
ProfileKeys == {"user_name", "country", "city", "language"} \cup Range(ExtraKeys)

\* the profile fields a step changes
ChangedProfile == {k \in ProfileKeys : data'[k] # data[k]}

\* what a mapping holds under a key
Entry(d, k) == IF DHas(d, k) THEN <<DGet(d, k)>> ELSE <<>>

\* the keys of the mapping data[area] that a step changes, adds or removes
Changed(area) ==
  {k \in {data[area].v[i].k : i \in 1..Len(data[area].v)}
           \cup {data'[area].v[i].k : i \in 1..Len(data'[area].v)} :
     Entry(data'[area].v, k) # Entry(data[area].v, k)}

\* the extractor that a line reaches first: the structured patterns, then
\* the relationship patterns, then knowledge teaching, then the generic
\* fact statement
FirstExtractor(found) ==
  IF found.pattern.n # 0 THEN "structured"
  ELSE IF found.rel.n # 0 THEN "relationship"
  ELSE IF found.learn.ok \/ found.teach.ok THEN "knowledge"
  ELSE "fact"

\* C18: a call of get_response changes at most one key of profile,
\* relationship map, knowledge base and fact table, and only in the part of
\* the store that belongs to the first extractor the line matches, in the
\* order structured fact, relationship, knowledge teaching, generic fact; a
\* line that matches a structured pattern and the shape "X is Y" changes
\* the profile field of the pattern and nothing else
ExtractorPriority ==
  [][ (now' # now /\ last'.op = "get_response" /\ strip(last'.input) # <<>>)
        => /\ Cardinality(ChangedProfile) + Cardinality(Changed("relationships"))
                + Cardinality(Changed("flexipdf_knowledge")) + Cardinality(Changed("facts")) <= 1
           /\ ChangedProfile # {} =>
                /\ FirstExtractor(Scan(strip(last'.input))) = "structured"
                /\ ChangedProfile = {patterns[Scan(strip(last'.input)).pattern.n].key}
           /\ Changed("relationships") # {} =>
                FirstExtractor(Scan(strip(last'.input))) = "relationship"
           /\ Changed("flexipdf_knowledge") # {} =>
                FirstExtractor(Scan(strip(last'.input))) = "knowledge"
           /\ Changed("facts") # {} =>
                FirstExtractor(Scan(strip(last'.input))) = "fact"
    ]_vars

\* "Rubab is from Kohat", which matches the pattern of the country and the
\* shape "X is Y", set the country and left the fact that was there, and
\* no other
ExtractorPriorityReached ==
  /\ last.op = "get_response"
  /\ last.input = <<"R","u","b","a","b"," ","i","s"," ","f","r","o","m"," ","K","o","h","a","t">>
  /\ LastFound.pattern.n # 0
  /\ LastFound.statement.ok
  /\ ~LastFound.question
  /\ data["country"] = Str(<<"K","o","h","a","t">>)
  /\ data["user_name"] = None
  /\ data["relationships"].v = <<>>
  /\ Len(data["facts"].v) = 1
  /\ DHas(data["facts"].v, <<"l","o","v","e">>)

\* no extractor takes the line: no structured pattern, no relationship
\* pattern and no teaching form matches it, and it is a question or has not
\* the shape of a statement with a subject of two characters and a meaning
NoExtractor(found) ==
  /\ found.pattern.n = 0
  /\ found.rel.n = 0
  /\ ~found.learn.ok
  /\ ~found.teach.ok
  /\ \/ found.question
     \/ ~found.statement.ok
     \/ Len(rstrip(strip(found.statement.g1), Punct)) < 2
     \/ Len(rstrip(strip(found.statement.g2), Punct)) < 1

\* C19: when get_response replies to a line that no extractor takes (the
\* reply of a resolver, the help lookup, the mood detector, the greeting,
\* the tell-me-about path or the fallback), the profile, the relationship
\* map, the fact table and the knowledge base are unchanged, and the log
\* and the context buffer gain the one exchange
ResolversDoNotMutate ==
  [][ ( /\ now' # now
        /\ last'.op = "get_response"
        /\ strip(last'.input) # <<>>
        /\ last'.ret.ok
        /\ NoExtractor(Scan(strip(last'.input))) )
      => /\ \A k \in DataKeys \ {"conversations"} : data'[k] = data[k]
         /\ data'["conversations"].v =
              Append(Log, Exchange(strip(last'.input), last'.ret.text, strftime(now')))
         /\ context' = deque_append(context, ctx_size,
                                    Exchange(strip(last'.input), last'.ret.text, strftime(now')))
    ]_vars

\* a query was answered from a store that holds a fact and a relationship
ResolversReached ==
  /\ last.op = "get_response"
  /\ last.ret.ok
  /\ NoExtractor(LastFound)
  /\ LastFound.query.ok
  /\ data["facts"].v # <<>>
  /\ data["relationships"].v # <<>>
  /\ Len(Log) = 3
  /\ Log[3] = Exchange(strip(last.input), last.ret.text, strftime(now))

\* the reply of the personal query for the entry n of q_map on a store
\* that holds nothing: the prompt that tells how to teach the attribute
Prompt(n) ==
  _answer_personal_query([Self EXCEPT !.data = DefaultData(None)], <<>>, [personal |-> n]).text

\* the sentence form the prompt gives, up to the value: what stands between
\* its two quotes, without the dots
SentenceForm(n) ==
  LET p == Prompt(n)
      i == CHOOSE j \in 1..Len(p) : p[j] = " yet. Tell me by saying 'My "
  IN  <<"M","y"," ">> \o SubSeq(p, i + 1, Len(p) - 1) \o <<" ","i","s"," ">>

\* the value of the line of prev, which has the sentence form of entry n
TaughtValue(n) ==
  rstrip(strip(SubSeq(strip(prev.input), Len(SentenceForm(n)) + 1, Len(strip(prev.input)))), Punct)

\* the last two calls sent the sentence form of the prompt of entry n with
\* a value, and then a query for the same attribute, a line that teaches
\* nothing
TaughtAsPrompted(n) ==
  /\ TwoReplies
  /\ Prompt(n)[Len(Prompt(n))] = " is ...'"
  /\ LitAt(strip(prev.input), 1, lower(SentenceForm(n)))
  /\ TaughtValue(n) # <<>>
  /\ NoExtractor(LastFound)
  /\ LastFound.personal # 0
  /\ q_map[LastFound.personal].key = q_map[n].key

\* C20: for every attribute of the query table, after the sentence form the
\* prompt gives ("My <X> is ...") was sent with a value V, the query for
\* the attribute returns "Your <X> is V" (V in the letter case it is stored
\* in)
PromptFollowable ==
  \A n \in 1..Len(q_map) :
    TaughtAsPrompted(n) =>
      \E W \in {TaughtValue(n), capitalize(TaughtValue(n)), title(TaughtValue(n))} :
        last.ret.text = <<"Your ">> \o replace(KeyChars[q_map[n].key], "_", " ")
                          \o <<" is ">> \o W \o <<" :star2:">>

\* the instance a process builds when there is no file, at clock reading n
FreshStart(n) == __init__(NoFile, n)

\* the last call was get_response on a line holding a help phrase whose key
\* is among the seeded entries
AskedHelp ==
  /\ last.op = "get_response"
  /\ \E n \in LastFound.help : DHas(SeedDefaults, help_map[n].key)

\* C21: after reset_memory every field of the store but the creation time
\* is that of an instance built with no file, the knowledge base with its
\* seeded help entries included, and a help phrase sent right after
\* reset_memory gets the reply it gets right after such a start
ResetEqualsFresh ==
  /\ last.op = "reset_memory" =>
       /\ \A k \in Persisted : data[k] = FreshStart(now).data[k]
       /\ context = FreshStart(now).context
  /\ (prev.op = "reset_memory" /\ AskedHelp) =>
       last.ret = get_response(FreshStart(now - 1), last.input, now).ret

\* the knowledge base _load_or_init_memory adopts from the file f: the dict
\* under flexipdf_knowledge, or the empty default
LoadedKnowledge(f) ==
  IF f.exists /\ f.t = "dict" /\ f.fields["flexipdf_knowledge"].t = "dict"
    THEN f.fields["flexipdf_knowledge"].v
    ELSE <<>>

\* C22: after a start the knowledge base holds every default key that the
\* loaded one lacked with its default text, every key of the loaded one
\* (a default key with another text and a key the user taught included)
\* with the loaded value, and no other key; seeding once more changes
\* neither the store nor the file
SeedingMerge ==
  last.op = "init" =>
    LET kb == data["flexipdf_knowledge"].v
        loaded == LoadedKnowledge(last.file)
    IN  /\ \A n \in 1..Len(SeedDefaults) :
             ~DHas(loaded, SeedDefaults[n].k) =>
                /\ DHas(kb, SeedDefaults[n].k)
                /\ DGet(kb, SeedDefaults[n].k) = SeedDefaults[n].v
        /\ \A i \in 1..Len(loaded) :
             /\ DHas(kb, loaded[i].k)
             /\ DGet(kb, loaded[i].k) = loaded[i].v
        /\ Range(DKeys(kb)) = Range(DKeys(loaded)) \cup Range(DKeys(SeedDefaults))
        /\ Len(kb) = Cardinality(Range(DKeys(kb)))
        /\ _seed_flexipdf_knowledge(Self).data = data
        /\ _seed_flexipdf_knowledge(Self).disk = disk

\* an instance started on a file whose knowledge base holds a default key
\* with another text and a key of the user's, and lacks a default key
SeedingMergeReached ==
  /\ last.op = "init"
  /\ \E n \in 1..Len(SeedDefaults) :
       /\ DHas(LoadedKnowledge(last.file), SeedDefaults[n].k)
       /\ DGet(LoadedKnowledge(last.file), SeedDefaults[n].k) # SeedDefaults[n].v
       /\ DGet(data["flexipdf_knowledge"].v, SeedDefaults[n].k) # SeedDefaults[n].v
  /\ \E i \in 1..Len(LoadedKnowledge(last.file)) :
       ~DHas(SeedDefaults, LoadedKnowledge(last.file)[i].k)
  /\ \E n \in 1..Len(SeedDefaults) : ~DHas(LoadedKnowledge(last.file), SeedDefaults[n].k)

\* the number of exchanges the context buffer is to hold: the smaller of
\* its capacity and the number logged since the start or the last reset
Held == IF logged < ctx_size THEN logged ELSE ctx_size

\* C23: in every state the context buffer is, in order, the last
\* min(ctx_size, logged) entries of the conversation log, logged being the
\* number of exchanges logged since the start or the last reset; the
\* entries the log held when the instance was built are not in the buffer
ContextMirror ==
  /\ logged <= Len(Log)
  /\ context = SubSeq(Log, Len(Log) - Held + 1, Len(Log))
  /\ last.op = "init" => context = <<>>
  /\ \A i \in 1..(Len(Log) - logged) : Log[i] \notin Range(context)

\* an instance built on a file whose log held an exchange has logged as
\* many exchanges as the buffer holds, and the log is longer than the buffer
ContextMirrorReached ==
  /\ logged = ctx_size
  /\ Len(Log) > logged
  /\ Len(context) = ctx_size
  /\ last.op = "get_response"

\* the line reaches _contextual_reference: no extractor takes it and neither
\* the relationship query, nor the fact query, nor the personal query
\* answers it
ReachesContext(found, store) ==
  /\ NoExtractor(found)
  /\ FirstRoleIn(store["relationships"].v, found.low) = 0
  /\ ~found.query.ok
  /\ found.personal = 0

\* the topic of "what did i tell you about <topic>": what follows the
\* phrase, without blanks around it and without a question mark at its end
AskedTopic(found) == lower(rstrip(strip(found.told.g1), {"?"}))

\* the exchanges of the log whose input holds the topic in any letter case
TopicMatches(found) ==
  {i \in 1..Len(Log) :
     /\ Log[i].t = "dict"
     /\ Log[i].user.t = "str"
     /\ contains(lower(Log[i].user.v), AskedTopic(found))}

\* the reply that quotes the exchange c
Quoted(c) ==
  <<"You told me: \"">> \o c.user.v \o <<"\" - I replied: \"">> \o c.ai.v
    \o <<"\" on ">> \o c.time.v

\* C24: when a line "what did i tell you about <topic>", with or without a
\* question mark at its end and without a cue, reaches the contextual
\* resolver and an exchange anywhere in the conversation log (older than the
\* context buffer, or loaded from the file) has an input holding <topic> in
\* any letter case, the reply quotes the input, the reply and the time of
\* the most recent such exchange
TopicRecall ==
  [][ ( /\ now' # now
        /\ last'.op = "get_response"
        /\ Scan(strip(last'.input)).told.ok
        /\ ~Scan(strip(last'.input)).cue
        /\ ReachesContext(Scan(strip(last'.input)), data)
        /\ TopicMatches(Scan(strip(last'.input))) # {} )
      => /\ last'.ret.ok
         /\ \E i \in TopicMatches(Scan(strip(last'.input))) :
              /\ \A j \in TopicMatches(Scan(strip(last'.input))) : j <= i
              /\ last'.ret.text = Quoted(Log[i])
    ]_vars


\* the number of words of s: the characters that end a run of non-blanks
Words(s) ==
  Cardinality({i \in 1..Len(s) :
     s[i] \notin SpaceSet /\ (i = Len(s) \/ s[i + 1] \in SpaceSet)})

\* the exchanges of the buffer q whose input has more than two words
LongInputs(q) == {i \in 1..Len(q) : Words(q[i].user.v) > 2}

\* C25: when a line holding one of the cues yesterday, earlier, before,
\* last time, you told me reaches the contextual resolver, the reply quotes
\* the input of the most recent exchange of the context buffer whose input
\* has more than two words; when the buffer holds none (as after a start or
\* a reset) the reply is the "I remember bits" message
CueReference ==
  [][ ( /\ now' # now
        /\ last'.op = "get_response"
        /\ Scan(strip(last'.input)).cue
        /\ ReachesContext(Scan(strip(last'.input)), data) )
      => /\ last'.ret.ok
         /\ \/ /\ LongInputs(context) = {}
               /\ last'.ret.text =
                    <<"I remember bits of our last chats - what would you like to continue?">>
            \/ \E i \in LongInputs(context) :
                 /\ \A j \in LongInputs(context) : j <= i
                 /\ last'.ret.text =
                      <<"You mentioned earlier: \"">> \o context[i].user.v
                        \o <<"\" - would you like to continue that topic?">>
    ]_vars

\* a cue line was answered by quoting an input of more than two words that
\* was not the one of the call before, which had two words at most
CueReferenceReached ==
  /\ TwoReplies
  /\ LastFound.cue
  /\ Words(strip(prev.input)) <= 2
  /\ Len(context) >= 2
  /\ Head(last.ret.text) = "You mentioned earlier: \""

\* the term of "what is T" / "who is T" / "define T": T without blanks
\* around it and punctuation at its end, in lower case
AskedDefinition(found) == lower(rstrip(strip(found.query.g2), Punct))

\* the reply that defines term from the fact table, and from the knowledge
\* base
FactReply(facts, term) == capitalize(term) \o <<" is ">> \o DGet(facts, term) \o <<" :bulb:">>

KnowledgeReply(knowledge, term) ==
  capitalize(replace(term, "_", " ")) \o <<": ">> \o DGet(knowledge, term)

\* the reply the lookup order gives for term T: the fact table and then the
\* knowledge base under T, then both under T without its leading article;
\* no text when none holds it
DefinitionOf(facts, knowledge, T) ==
  IF DHas(facts, T) THEN FactReply(facts, T)
  ELSE IF DHas(knowledge, T) THEN KnowledgeReply(knowledge, T)
  ELSE IF DHas(facts, StripArticle(T)) THEN FactReply(facts, StripArticle(T))
  ELSE IF DHas(knowledge, StripArticle(T)) THEN KnowledgeReply(knowledge, StripArticle(T))
  ELSE <<>>

\* C26: for "what is T" / "who is T" / "define T" that reaches the fact
\* query, the reply defines lower-cased T from the fact table when it
\* holds T, else from the knowledge base when it holds T, else from the
\* fact table or the knowledge base under T without a leading the/a/an;
\* only when none holds the term the fact query gives no answer and the
\* reply is one of a later step
DefinitionLookupOrder ==
  [][ ( /\ now' # now
        /\ last'.op = "get_response"
        /\ Scan(strip(last'.input)).query.ok
        /\ NoExtractor(Scan(strip(last'.input)))
        /\ FirstRoleIn(data["relationships"].v, Scan(strip(last'.input)).low) = 0 )
      => /\ last'.ret.ok
         /\ LET reply == DefinitionOf(data["facts"].v, data["flexipdf_knowledge"].v,
                                      AskedDefinition(Scan(strip(last'.input))))
            IN  IF reply # <<>>
                  THEN last'.ret.text = reply
                  ELSE last'.ret.text =
                         LateReply(Self, strip(last'.input), Scan(strip(last'.input)))
    ]_vars
====
